---------------------------- MODULE Spec2Model ----------------------------
(***************************************************************************)
(* A model of stag::Graph (src/stag_lib/graph.cpp).                        *)
(*                                                                         *)
(* Values.  The entries of a sparse matrix are doubles in the source.      *)
(* Here they are integers on a grid: every arithmetic step the Graph code  *)
(* makes on them (negation, sums of a row, differences) is exact on the    *)
(* grid, and EPSILON is one grid step, so the values 0 and EPSILON are the *)
(* ones the prune removes and EPSILON + 1 is the smallest one it keeps.    *)
(* Quotients and square roots (inverse degree, normalised Laplacians, the  *)
(* lazy random walk) are kept as terms, never evaluated.                   *)
(*                                                                         *)
(* Matrices.  A SprsMat is a record [n, val]: its dimension and a function *)
(* from the index pairs <<i, j>>, 0 <= i, j < n, to its coefficients; the  *)
(* stored entries are the non-zero ones.  Indices are 0-based as in the    *)
(* source; the outer (compressed) dimension is called the row, as          *)
(* graph.cpp calls it.                                                     *)
(***************************************************************************)
EXTENDS Integers, Sequences, FiniteSets, TLC

\* ------------------------------------------------------------------------
\* Bounds of the model
\* ------------------------------------------------------------------------
\* largest dimension of an arbitrary matrix handed to a constructor
MaxDim == 2
\* largest number of stored entries of an arbitrary input matrix
MaxNnz == 3
\* largest number of vertices of an input weighted graph, and the largest
\* argument of a standard constructor
MaxN == 3
\* largest number of edges (self-loops included) of an input weighted graph
MaxEdges == 2
\* longest vertex list handed to subgraph
MaxListLen == 3
\* the derived-matrix constructions counted per Graph (the count saturates)
MaxBuilds == 2

\* ------------------------------------------------------------------------
\* Sparse matrices
\* ------------------------------------------------------------------------
\* the prune threshold used by adjacency_from_adj_or_lap, in grid steps
EPSILON == 1

Verts(n) == 0 .. (n - 1)

Pairs(n) == Verts(n) \X Verts(n)

\* SprsMat(rows, cols), square: the matrix with no stored entry
ZeroMat(n) == [n |-> n, val |-> [p \in Pairs(n) |-> 0]]

\* a default-constructed SprsMat member
EmptyMat == ZeroMat(0)

\* SparseMatrix::coeff(i, j)
coeff(M, i, j) == IF i \in Verts(M.n) /\ j \in Verts(M.n) THEN M.val[<<i, j>>] ELSE 0

RECURSIVE SumTo(_, _)
\* f[0] + ... + f[k - 1]
SumTo(f, k) == IF k <= 0 THEN 0 ELSE f[k - 1] + SumTo(f, k - 1)

\* (matrix * VectorXd::Ones(matrix.cols()))[i]
RowSum(M, i) == SumTo([j \in Verts(M.n) |-> M.val[<<i, j>>]], M.n)

\* SparseMatrix::nonZeros() of a matrix without explicit zeros
nonZeros(M) == Cardinality({p \in Pairs(M.n) : M.val[p] # 0})

\* stag::isSymmetric: every stored entry equals the entry at the transposed place
isSymmetric(M) == \A p \in Pairs(M.n) : M.val[p] # 0 => M.val[p] = coeff(M, p[2], p[1])

\* ------------------------------------------------------------------------
\* Graph construction
\* ------------------------------------------------------------------------
\* a scan that looks at the off-diagonal stored entries only
FoundNegativeValueOffDiagonal(matrix) == \E p \in Pairs(matrix.n) : p[1] # p[2] /\ matrix.val[p] < 0

\* the scan of adjacency_from_adj_or_lap for a negative stored entry
found_negative_value(matrix) == \E p \in Pairs(matrix.n) : matrix.val[p] < 0

\* a keep predicate that tests the absolute value
KeepAbsAboveEpsilon(value) == value > EPSILON \/ (0 - value) > EPSILON

\* the keep predicate of the prune in adjacency_from_adj_or_lap
KeepEntry(value) == value > EPSILON

\* adjacency_matrix.prune(keep): the entries the predicate rejects are removed
prune(M) == [n |-> M.n, val |-> [p \in Pairs(M.n) |-> IF KeepEntry(M.val[p]) THEN M.val[p] ELSE 0]]

\* adjacency_matrix = -matrix, the diagonal left as the negation gives it
LaplacianToAdjacencyNegationOnly(matrix) ==
  [n |-> matrix.n, val |-> [p \in Pairs(matrix.n) |-> 0 - matrix.val[p]]]

\* adjacency_matrix = -matrix, then coeffRef(i, i) = (matrix * Ones)[i]
LaplacianToAdjacency(matrix) ==
  [n |-> matrix.n,
   val |-> [p \in Pairs(matrix.n) |->
              IF p[1] = p[2] THEN RowSum(matrix, p[1]) ELSE 0 - matrix.val[p]]]

adjacency_from_adj_or_lap(matrix) ==
  prune(IF found_negative_value(matrix) THEN LaplacianToAdjacency(matrix) ELSE matrix)

\* stag::sprsMatOuterStarts, sprsMatInnerIndices, sprsMatValues: the three CSR
\* vectors of a matrix, as sequences (position k of the vector is element k + 1)
RECURSIVE RowEntries(_, _, _)
\* the column indices of the stored entries of row i, from column j on, ascending
RowEntries(M, i, j) ==
  IF j >= M.n THEN << >>
  ELSE (IF M.val[<<i, j>>] # 0 THEN <<j>> ELSE << >>) \o RowEntries(M, i, j + 1)

RECURSIVE InnerFrom(_, _)
InnerFrom(M, i) == IF i >= M.n THEN << >> ELSE RowEntries(M, i, 0) \o InnerFrom(M, i + 1)

sprsMatInnerIndices(M) == InnerFrom(M, 0)

RECURSIVE ValuesFrom(_, _)
ValuesFrom(M, i) ==
  IF i >= M.n THEN << >>
  ELSE LET cols == RowEntries(M, i, 0)
       IN [k \in 1 .. Len(cols) |-> M.val[<<i, cols[k]>>]] \o ValuesFrom(M, i + 1)

sprsMatValues(M) == ValuesFrom(M, 0)

RECURSIVE StartsFrom(_, _, _)
StartsFrom(M, i, acc) ==
  IF i >= M.n THEN <<acc>>
  ELSE <<acc>> \o StartsFrom(M, i + 1, acc + Len(RowEntries(M, i, 0)))

sprsMatOuterStarts(M) == StartsFrom(M, 0, 0)

\* stag::sprsMatFromVectors: the matrix of dimension Len(outerStarts) - 1 whose
\* row i holds values[k] at column innerIndices[k], outerStarts[i] <= k < outerStarts[i+1]
sprsMatFromVectors(outerStarts, innerIndices, values) ==
  LET n == Len(outerStarts) - 1
      Hits(i, j) == {k \in 1 .. Len(innerIndices) :
                       /\ k <= Len(values)
                       /\ outerStarts[i + 1] < k /\ k <= outerStarts[i + 2]
                       /\ innerIndices[k] = j}
  IN [n |-> n,
      val |-> [p \in Pairs(n) |->
                 IF Hits(p[1], p[2]) = {} THEN 0
                 ELSE values[CHOOSE k \in Hits(p[1], p[2]) : \A l \in Hits(p[1], p[2]) : k <= l]]]

\* a CSR triple that is not the storage of a square matrix of dimension
\* Len(outerStarts) - 1: an inner index outside the matrix, or starts that do
\* not run from 0 to the number of stored values
Malformed(outerStarts, innerIndices, values) ==
  \/ Len(innerIndices) # Len(values)
  \/ outerStarts[1] # 0
  \/ outerStarts[Len(outerStarts)] # Len(values)
  \/ \E k \in 1 .. Len(innerIndices) : innerIndices[k] \notin Verts(Len(outerStarts) - 1)

\* ------------------------------------------------------------------------
\* The Graph object
\* ------------------------------------------------------------------------
\* the names of the seven derived matrices
Derived == {"degree", "inverse_degree", "laplacian", "signless_laplacian",
            "normalised_laplacian", "normalised_signless_laplacian", "lazy_random_walk"}

NoGraph == [null |-> TRUE]

\* the members a constructor sets before self_test_ (lines 71-92 and 102-123);
\* builds is the number of times each derived matrix has been constructed
NewGraph(adj) ==
  [adjacency_matrix_ |-> adj,
   number_of_vertices_ |-> adj.n,
   has_self_loops_ |-> \E i \in Verts(adj.n) : coeff(adj, i, i) # 0,
   lap_init_ |-> FALSE,
   signless_lap_init_ |-> FALSE,
   signless_norm_lap_init_ |-> FALSE,
   deg_init_ |-> FALSE,
   inv_deg_init_ |-> FALSE,
   norm_lap_init_ |-> FALSE,
   lazy_rand_walk_init_ |-> FALSE,
   degree_matrix_ |-> EmptyMat,
   inverse_degree_matrix_ |-> EmptyMat,
   laplacian_matrix_ |-> EmptyMat,
   signless_laplacian_matrix_ |-> EmptyMat,
   normalised_laplacian_matrix_ |-> EmptyMat,
   normalised_signless_laplacian_matrix_ |-> EmptyMat,
   lazy_random_walk_matrix_ |-> EmptyMat,
   builds |-> [m \in Derived |-> 0]]

\* self_test_ of a Graph that never throws
SelfTestNever(g) == FALSE

\* self_test_: TRUE when it throws std::domain_error
self_test_(g) == ~isSymmetric(g.adjacency_matrix_)

\* Graph::Graph(const SprsMat&): the outcome and, when nothing is thrown, the object
GraphCtor(matrix) ==
  LET g == NewGraph(adjacency_from_adj_or_lap(matrix))
  IN IF self_test_(g) THEN [kind |-> "domain_error", graph |-> NoGraph]
     ELSE [kind |-> "graph", graph |-> g]

\* Graph::Graph(outerStarts, innerIndices, values), on a well-formed CSR triple
GraphCtorCSR(outerStarts, innerIndices, values) ==
  GraphCtor(sprsMatFromVectors(outerStarts, innerIndices, values))

\* ------------------------------------------------------------------------
\* Derived matrices (lazy initialisation)
\* ------------------------------------------------------------------------
\* one more construction of derived matrix m
Built(g, m) == [g.builds EXCEPT ![m] = IF @ < MaxBuilds THEN @ + 1 ELSE @]

Delta(p) == IF p[1] = p[2] THEN 1 ELSE 0

\* the matrix the body of initialise_degree_matrix_ constructs
DegreeMatrixOf(g) ==
  LET A == g.adjacency_matrix_
  IN [n |-> A.n,
      val |-> [p \in Pairs(A.n) |->
                 IF p[1] = p[2] THEN RowSum(A, p[1]) + coeff(A, p[1], p[1]) ELSE 0]]

\* initialise_degree_matrix_ without its deg_init_ test
initialise_degree_matrix_Always(g) ==
  [g EXCEPT !.degree_matrix_ = DegreeMatrixOf(g),
            !.deg_init_ = TRUE,
            !.builds = Built(g, "degree")]

\* initialise_degree_matrix_ counting a self-loop once
initialise_degree_matrix_LoopOnce(g) ==
  IF g.deg_init_ THEN g
  ELSE [g EXCEPT !.degree_matrix_ =
                    [n |-> g.adjacency_matrix_.n,
                     val |-> [p \in Pairs(g.adjacency_matrix_.n) |->
                                IF p[1] = p[2] THEN RowSum(g.adjacency_matrix_, p[1]) ELSE 0]],
                 !.deg_init_ = TRUE,
                 !.builds = Built(g, "degree")]

initialise_degree_matrix_(g) ==
  IF g.deg_init_ THEN g
  ELSE [g EXCEPT !.degree_matrix_ = DegreeMatrixOf(g),
                 !.deg_init_ = TRUE,
                 !.builds = Built(g, "degree")]

\* 1./d, kept as the quotient <<1, d>>
Reciprocal(d) == <<1, d>>

initialise_inverse_degree_matrix_(g) ==
  IF g.inv_deg_init_ THEN g
  ELSE LET h == initialise_degree_matrix_(g)
           n == h.adjacency_matrix_.n
       IN [h EXCEPT !.inverse_degree_matrix_ =
                       [n |-> n,
                        val |-> [p \in Pairs(n) |->
                                   IF p[1] = p[2]
                                   THEN Reciprocal(coeff(h.degree_matrix_, p[1], p[1]))
                                   ELSE <<0, 1>>]],
                    !.inv_deg_init_ = TRUE,
                    !.builds = Built(h, "inverse_degree")]

\* an initialise_laplacian_ that builds the Laplacian in the adjacency matrix
initialise_laplacian_InPlace(g) ==
  IF g.lap_init_ THEN g
  ELSE LET h == initialise_degree_matrix_(g)
           A == h.adjacency_matrix_
           L == [n |-> A.n,
                 val |-> [p \in Pairs(A.n) |-> coeff(h.degree_matrix_, p[1], p[2]) - A.val[p]]]
       IN [h EXCEPT !.adjacency_matrix_ = L,
                    !.laplacian_matrix_ = L,
                    !.lap_init_ = TRUE,
                    !.builds = Built(h, "laplacian")]

initialise_laplacian_(g) ==
  IF g.lap_init_ THEN g
  ELSE LET h == initialise_degree_matrix_(g)
           A == h.adjacency_matrix_
       IN [h EXCEPT !.laplacian_matrix_ =
                       [n |-> A.n,
                        val |-> [p \in Pairs(A.n) |-> coeff(h.degree_matrix_, p[1], p[2]) - A.val[p]]],
                    !.lap_init_ = TRUE,
                    !.builds = Built(h, "laplacian")]

initialise_signless_laplacian_(g) ==
  IF g.signless_lap_init_ THEN g
  ELSE LET h == initialise_degree_matrix_(g)
           A == h.adjacency_matrix_
       IN [h EXCEPT !.signless_laplacian_matrix_ =
                       [n |-> A.n,
                        val |-> [p \in Pairs(A.n) |-> coeff(h.degree_matrix_, p[1], p[2]) + A.val[p]]],
                    !.signless_lap_init_ = TRUE,
                    !.builds = Built(h, "signless_laplacian")]

\* the entry identity[p] + sign * (D^{-1/2} A D^{-1/2})[p], kept as the term
\* <<delta, x, di, dj>> for delta + x / sqrt(di * dj); the sparse product has
\* an entry only where A has one
NormalisedEntry(h, p, sign) ==
  LET a == coeff(h.adjacency_matrix_, p[1], p[2])
  IN IF a = 0 THEN <<Delta(p), 0, 1, 1>>
     ELSE <<Delta(p), sign * a,
            coeff(h.degree_matrix_, p[1], p[1]), coeff(h.degree_matrix_, p[2], p[2])>>

initialise_normalised_laplacian_(g) ==
  IF g.norm_lap_init_ THEN g
  ELSE LET h == initialise_degree_matrix_(g)
           n == h.number_of_vertices_
       IN [h EXCEPT !.normalised_laplacian_matrix_ =
                       [n |-> n, val |-> [p \in Pairs(n) |-> NormalisedEntry(h, p, -1)]],
                    !.norm_lap_init_ = TRUE,
                    !.builds = Built(h, "normalised_laplacian")]

initialise_normalised_signless_laplacian_(g) ==
  IF g.signless_norm_lap_init_ THEN g
  ELSE LET h == initialise_degree_matrix_(g)
           n == h.number_of_vertices_
       IN [h EXCEPT !.normalised_signless_laplacian_matrix_ =
                       [n |-> n, val |-> [p \in Pairs(n) |-> NormalisedEntry(h, p, 1)]],
                    !.signless_norm_lap_init_ = TRUE,
                    !.builds = Built(h, "normalised_signless_laplacian")]

\* the entry of (1/2) I + (1/2) A D^{-1}, kept as the term <<delta, a, q>> for
\* delta / 2 + a * q / 2, q the quotient stored in the inverse degree matrix
initialise_lazy_random_walk_matrix_(g) ==
  IF g.lazy_rand_walk_init_ THEN g
  ELSE LET h == initialise_inverse_degree_matrix_(g)
           n == h.number_of_vertices_
       IN [h EXCEPT !.lazy_random_walk_matrix_ =
                       [n |-> n,
                        val |-> [p \in Pairs(n) |->
                                   IF coeff(h.adjacency_matrix_, p[1], p[2]) = 0
                                   THEN <<Delta(p), 0, <<0, 1>>>>
                                   ELSE <<Delta(p), coeff(h.adjacency_matrix_, p[1], p[2]),
                                          h.inverse_degree_matrix_.val[<<p[2], p[2]>>]>>]],
                    !.lazy_rand_walk_init_ = TRUE,
                    !.builds = Built(h, "lazy_random_walk")]

\* the initialiser an accessor calls, and the member it returns a pointer to
Initialise(m, g) ==
  CASE m = "degree" -> initialise_degree_matrix_(g)
    [] m = "inverse_degree" -> initialise_inverse_degree_matrix_(g)
    [] m = "laplacian" -> initialise_laplacian_(g)
    [] m = "signless_laplacian" -> initialise_signless_laplacian_(g)
    [] m = "normalised_laplacian" -> initialise_normalised_laplacian_(g)
    [] m = "normalised_signless_laplacian" -> initialise_normalised_signless_laplacian_(g)
    [] m = "lazy_random_walk" -> initialise_lazy_random_walk_matrix_(g)

Member(m, g) ==
  CASE m = "degree" -> g.degree_matrix_
    [] m = "inverse_degree" -> g.inverse_degree_matrix_
    [] m = "laplacian" -> g.laplacian_matrix_
    [] m = "signless_laplacian" -> g.signless_laplacian_matrix_
    [] m = "normalised_laplacian" -> g.normalised_laplacian_matrix_
    [] m = "normalised_signless_laplacian" -> g.normalised_signless_laplacian_matrix_
    [] m = "lazy_random_walk" -> g.lazy_random_walk_matrix_

InitFlag(m, g) ==
  CASE m = "degree" -> g.deg_init_
    [] m = "inverse_degree" -> g.inv_deg_init_
    [] m = "laplacian" -> g.lap_init_
    [] m = "signless_laplacian" -> g.signless_lap_init_
    [] m = "normalised_laplacian" -> g.norm_lap_init_
    [] m = "normalised_signless_laplacian" -> g.signless_norm_lap_init_
    [] m = "lazy_random_walk" -> g.lazy_rand_walk_init_

\* ------------------------------------------------------------------------
\* Queries
\* ------------------------------------------------------------------------
\* *(ptr + k) on a vector held as a sequence; a read past its end yields 0
At(vec, k) == IF k + 1 \in 1 .. Len(vec) THEN vec[k + 1] ELSE 0

\* check_vertex_argument without its test for a negative index
check_vertex_argument_NoNegativeTest(g, v) == v >= g.number_of_vertices_

\* check_vertex_argument: TRUE when it throws std::invalid_argument
check_vertex_argument(g, v) == v >= g.number_of_vertices_ \/ v < 0

\* total_volume: the sum of the stored entries of the degree matrix, after
\* initialise_degree_matrix_
total_volume(g) ==
  LET h == initialise_degree_matrix_(g)
  IN [kind |-> "value",
      val |-> SumTo([i \in Verts(h.degree_matrix_.n) |-> RowSum(h.degree_matrix_, i)],
                    h.degree_matrix_.n),
      graph |-> h, read |-> TRUE]

\* number_of_edges without the second count of the diagonal
number_of_edges_Half(g) == nonZeros(g.adjacency_matrix_) \div 2

number_of_edges(g) ==
  LET nnz == nonZeros(g.adjacency_matrix_)
      loops == Cardinality({i \in Verts(g.number_of_vertices_) :
                             coeff(g.adjacency_matrix_, i, i) # 0})
  IN IF g.has_self_loops_ THEN (nnz + loops) \div 2 ELSE nnz \div 2

degree(g, v) ==
  IF check_vertex_argument(g, v)
  THEN [kind |-> "invalid_argument", val |-> 0, graph |-> g, read |-> FALSE]
  ELSE LET h == initialise_degree_matrix_(g)
       IN [kind |-> "value", val |-> coeff(h.degree_matrix_, v, v), graph |-> h, read |-> TRUE]

\* degree_unweighted without the count of the self-loop
DegreeUnweightedOfRowOnly(g, v) ==
  LET indexPtr == sprsMatOuterStarts(g.adjacency_matrix_)
  IN At(indexPtr, v + 1) - At(indexPtr, v)

\* the value degree_unweighted returns once the vertex argument is accepted
DegreeUnweightedOf(g, v) ==
  LET indexPtr == sprsMatOuterStarts(g.adjacency_matrix_)
      self_loop == IF coeff(g.adjacency_matrix_, v, v) # 0 THEN 1 ELSE 0
  IN At(indexPtr, v + 1) - At(indexPtr, v) + self_loop

degree_unweighted(g, v) ==
  IF check_vertex_argument(g, v)
  THEN [kind |-> "invalid_argument", val |-> 0, graph |-> g, read |-> FALSE]
  ELSE [kind |-> "value", val |-> DegreeUnweightedOf(g, v), graph |-> g, read |-> TRUE]

\* the number of entries of row v that neighbors and neighbors_unweighted
\* walk over, with the self-loop entry left out of the count twice
RowWalkLengthLessLoop(g, v) ==
  DegreeUnweightedOf(g, v) - 2 * (IF coeff(g.adjacency_matrix_, v, v) # 0 THEN 1 ELSE 0)

\* degree_unw - self_loop
RowWalkLength(g, v) ==
  DegreeUnweightedOf(g, v) - (IF coeff(g.adjacency_matrix_, v, v) # 0 THEN 1 ELSE 0)

\* neighbors: the edges {v, u, w} pushed while walking the stored entries of row v
neighbors(g, v) ==
  IF check_vertex_argument(g, v)
  THEN [kind |-> "invalid_argument", val |-> << >>, graph |-> g, read |-> FALSE]
  ELSE LET weights == sprsMatValues(g.adjacency_matrix_)
           innerIndices == sprsMatInnerIndices(g.adjacency_matrix_)
           vRowStart == At(sprsMatOuterStarts(g.adjacency_matrix_), v)
           walked == [i \in 1 .. RowWalkLength(g, v) |->
                        [v1 |-> v,
                         v2 |-> At(innerIndices, vRowStart + i - 1),
                         weight |-> At(weights, vRowStart + i - 1)]]
           NonZero(e) == e.weight # 0
       IN [kind |-> "value", val |-> SelectSeq(walked, NonZero), graph |-> g, read |-> TRUE]

neighbors_unweighted(g, v) ==
  IF check_vertex_argument(g, v)
  THEN [kind |-> "invalid_argument", val |-> << >>, graph |-> g, read |-> FALSE]
  ELSE LET innerIndices == sprsMatInnerIndices(g.adjacency_matrix_)
           vRowStart == At(sprsMatOuterStarts(g.adjacency_matrix_), v)
       IN [kind |-> "value",
           val |-> [i \in 1 .. RowWalkLength(g, v) |-> At(innerIndices, vRowStart + i - 1)],
           graph |-> g, read |-> TRUE]

vertex_exists(g, v) == v >= 0 /\ v < g.number_of_vertices_

\* ------------------------------------------------------------------------
\* Graphs built from graphs, and the standard graphs
\* ------------------------------------------------------------------------
RECURSIVE SumWeights(_)
\* the sum of the weights (third component) of a finite set of tagged triplets
SumWeights(T) ==
  IF T = {} THEN 0
  ELSE LET t == CHOOSE x \in T : TRUE IN t[3] + SumWeights(T \ {t})

\* SprsMat(n, n) followed by setFromTriplets: the entries of equal position are
\* summed.  A triplet is <<row, col, weight, tag>>, the tag telling apart the
\* emplace_back calls that push equal triplets
setFromTriplets(n, T) ==
  [n |-> n, val |-> [p \in Pairs(n) |-> SumWeights({t \in T : t[1] = p[1] /\ t[2] = p[2]})]]

\* an id map that counts every element of the list, repeated ones included
old_to_new_id_Position(vertices, v) ==
  (CHOOSE k \in 1 .. Len(vertices) : vertices[k] = v /\ \A l \in 1 .. (k - 1) : vertices[l] # v) - 1

\* the position of the first occurrence of v in the list, counting distinct
\* vertices only: old_to_new_id[v]
old_to_new_id(vertices, v) ==
  LET first == CHOOSE k \in 1 .. Len(vertices) :
                 vertices[k] = v /\ \A l \in 1 .. (k - 1) : vertices[l] # v
  IN Cardinality({vertices[l] : l \in 1 .. (first - 1)})

subgraph(g, vertices) ==
  LET vertex_set == {vertices[k] : k \in 1 .. Len(vertices)}
      new_id == [v \in vertex_set |-> old_to_new_id(vertices, v)]
      edges == [v \in vertex_set |-> neighbors(g, v).val]
      kept == [v \in vertex_set |->
                 {k \in 1 .. Len(edges[v]) : edges[v][k].v2 >= v /\ edges[v][k].v2 \in vertex_set}]
      non_zero_entries ==
        UNION {
          {<<new_id[v], new_id[edges[v][k].v2], edges[v][k].weight, <<"first", v, k>>>> :
               k \in kept[v]}
          \cup
          {<<new_id[edges[v][k].v2], new_id[v], edges[v][k].weight, <<"symmetric", v, k>>>> :
               k \in {l \in kept[v] : edges[v][l].v2 > v}}
          : v \in vertex_set}
  IN IF \E v \in vertex_set : check_vertex_argument(g, v)
     THEN [kind |-> "invalid_argument", graph |-> NoGraph]
     ELSE GraphCtor(setFromTriplets(Cardinality(vertex_set), non_zero_entries))

\* the three vectors disjoint_union hands to the CSR constructor
UnionVectors(g, other) ==
  LET other_adj == other.adjacency_matrix_
      other_outerStarts == sprsMatOuterStarts(other_adj)
      other_innerIndices == sprsMatInnerIndices(other_adj)
      outerStarts == sprsMatOuterStarts(g.adjacency_matrix_)
      start_offset == outerStarts[Len(outerStarts)]
      NotZero(x) == x # 0
      kept_starts == SelectSeq(other_outerStarts, NotZero)
      inner_offset == g.number_of_vertices_
  IN [outerStarts |-> outerStarts \o [k \in 1 .. Len(kept_starts) |-> kept_starts[k] + start_offset],
      innerIndices |-> sprsMatInnerIndices(g.adjacency_matrix_)
                       \o [k \in 1 .. Len(other_innerIndices) |-> other_innerIndices[k] + inner_offset],
      values |-> sprsMatValues(g.adjacency_matrix_) \o sprsMatValues(other_adj)]

\* disjoint_union: the outcomes of the CSR constructor on these vectors.  On a
\* triple that is not the storage of a matrix the symmetry test reads outside
\* the arrays: the build either finds a mismatch (domain error) or stops
disjoint_union(g, other) ==
  LET u == UnionVectors(g, other)
  IN IF Malformed(u.outerStarts, u.innerIndices, u.values)
     THEN {[kind |-> "domain_error", graph |-> NoGraph], [kind |-> "abort", graph |-> NoGraph]}
     ELSE {GraphCtorCSR(u.outerStarts, u.innerIndices, u.values)}

\* the double 1.0 of the standard graphs on the value grid
ONE == EPSILON + 1

StandardGraphs == {"cycle_graph", "complete_graph", "star_graph", "second_difference_graph"}

\* the triplets a standard constructor pushes for n vertices
StandardTriplets(name, n) ==
  CASE name = "cycle_graph" ->
         {<<i, (i + n + 1) % n, ONE, "next">> : i \in Verts(n)}
         \cup {<<i, (i + n - 1) % n, ONE, "previous">> : i \in Verts(n)}
    [] name = "complete_graph" ->
         {<<p[1], p[2], ONE, "edge">> : p \in {q \in Pairs(n) : q[1] # q[2]}}
    [] name = "star_graph" ->
         {<<0, i, ONE, "out">> : i \in 1 .. (n - 1)} \cup {<<i, 0, ONE, "in">> : i \in 1 .. (n - 1)}
    [] name = "second_difference_graph" ->
         {<<i, i, 2 * ONE, "diagonal">> : i \in Verts(n)}
         \cup {<<i, i + 1, 0 - ONE, "upper">> : i \in 0 .. (n - 2)}
         \cup {<<i, i - 1, 0 - ONE, "lower">> : i \in 1 .. (n - 1)}

\* cycle_graph, complete_graph, star_graph, second_difference_graph
StandardGraph(name, n) ==
  IF n < 2 THEN [kind |-> "invalid_argument", graph |-> NoGraph]
  ELSE GraphCtor(setFromTriplets(n, StandardTriplets(name, n)))

\* ------------------------------------------------------------------------
\* Inputs
\* ------------------------------------------------------------------------
\* the values of the stored entries of an arbitrary input matrix: a negative
\* value, the threshold itself, and two values above it
InVals == {0 - (EPSILON + 1), EPSILON, EPSILON + 1, EPSILON + 2}

\* the places of the stored entries of an input matrix of dimension n: at
\* most MaxNnz of them
StoredPlaces(n) == {T \in SUBSET Pairs(n) : Cardinality(T) <= MaxNnz}

\* the square matrix of dimension n with the entries f at the places S
InputMatrix(n, S, f) == [n |-> n, val |-> [p \in Pairs(n) |-> IF p \in S THEN f[p] ELSE 0]]

\* the weights of the edges of an input weighted graph
Weights == {EPSILON, EPSILON + 1, EPSILON + 2}

EdgePlaces(n) == {p \in Pairs(n) : p[1] <= p[2]}

\* the edge sets of an input weighted graph on n vertices: at most MaxEdges
\* edges, self-loops included
EdgeSets(n) == {F \in SUBSET EdgePlaces(n) : Cardinality(F) <= MaxEdges}

\* A(G) for the weighted graph G on n vertices with the edges E of weights w
AdjacencyOf(n, E, w) ==
  [n |-> n,
   val |-> [p \in Pairs(n) |->
              IF p \in E THEN w[p]
              ELSE IF <<p[2], p[1]>> \in E THEN w[<<p[2], p[1]>>] ELSE 0]]

\* L(G) = D - A, D the weighted degrees with each self-loop counted twice
LaplacianOf(A) ==
  [n |-> A.n,
   val |-> [p \in Pairs(A.n) |->
              IF p[1] = p[2] THEN (RowSum(A, p[1]) + A.val[p]) - A.val[p] ELSE 0 - A.val[p]]]

\* the vertex lists handed to subgraph: up to MaxListLen vertices, n (no
\* vertex of the graph) among them
VertexLists(n) == UNION {[1 .. len -> 0 .. n] : len \in 0 .. MaxListLen}

\* largest number of vertices of the two operands of disjoint_union together
MaxUnionN == 3

\* ------------------------------------------------------------------------
\* State
\* ------------------------------------------------------------------------
\* this: the Graph object the operations are called on (NoGraph: none exists)
\* ret:  the last call: its name, argument, outcome, returned value, and
\*       whether it went on to read matrix data
VARIABLES this, ret

vars == <<this, ret>>

NoCall == [op |-> "none", arg |-> 0, kind |-> "none", val |-> 0, read |-> FALSE]

Init == this = NoGraph /\ ret = NoCall

\* ------------------------------------------------------------------------
\* Constructors
\* ------------------------------------------------------------------------
\* Graph(const SprsMat&) on an arbitrary matrix of dimension 1 .. MaxDim
Graph_SprsMat ==
  /\ this = NoGraph /\ ret.op = "none"
  /\ \E n \in 1 .. MaxDim : \E S \in StoredPlaces(n) : \E f \in [S -> InVals] :
       LET matrix == InputMatrix(n, S, f)
           out == GraphCtor(matrix)
       IN /\ this' = out.graph
          /\ ret' = [op |-> "Graph", arg |-> [matrix |-> matrix, of |-> matrix, form |-> "matrix"],
                     kind |-> out.kind, val |-> found_negative_value(matrix), read |-> TRUE]

\* Graph(outerStarts, innerIndices, values) on the CSR vectors of an arbitrary matrix
Graph_CSR ==
  /\ this = NoGraph /\ ret.op = "none"
  /\ \E n \in 1 .. MaxDim : \E S \in StoredPlaces(n) : \E f \in [S -> InVals] :
       LET matrix == InputMatrix(n, S, f)
           out == GraphCtorCSR(sprsMatOuterStarts(matrix), sprsMatInnerIndices(matrix),
                               sprsMatValues(matrix))
       IN /\ this' = out.graph
          /\ ret' = [op |-> "Graph", arg |-> [matrix |-> matrix, of |-> matrix, form |-> "csr"],
                     kind |-> out.kind, val |-> found_negative_value(matrix), read |-> TRUE]

\* Graph(const SprsMat&) on the adjacency matrix or the Laplacian of a weighted
\* graph on 1 .. MaxN vertices
Graph_Weighted ==
  /\ this = NoGraph /\ ret.op = "none"
  /\ \E n \in 1 .. MaxN : \E E \in EdgeSets(n) : \E w \in [E -> Weights] :
     \E form \in {"adjacency", "laplacian"} :
       LET A == AdjacencyOf(n, E, w)
           matrix == IF form = "laplacian" THEN LaplacianOf(A) ELSE A
           out == GraphCtor(matrix)
       IN /\ this' = out.graph
          /\ ret' = [op |-> "Graph", arg |-> [matrix |-> matrix, of |-> A, form |-> form],
                     kind |-> out.kind, val |-> found_negative_value(matrix), read |-> TRUE]

\* cycle_graph(n), complete_graph(n), star_graph(n), second_difference_graph(n)
Standard ==
  /\ this = NoGraph /\ ret.op = "none"
  /\ \E name \in StandardGraphs, n \in 1 .. MaxN :
       LET out == StandardGraph(name, n)
       IN /\ this' = out.graph
          /\ ret' = [op |-> name, arg |-> n, kind |-> out.kind, val |-> 0, read |-> FALSE]

\* the caller lets the Graph and the last result go
Destroy ==
  /\ this # NoGraph \/ ret.op # "none"
  /\ this' = NoGraph
  /\ ret' = NoCall

\* ------------------------------------------------------------------------
\* Operations of a Graph
\* ------------------------------------------------------------------------
\* laplacian(), normalised_laplacian(), signless_laplacian(),
\* normalised_signless_laplacian(), degree_matrix(), inverse_degree_matrix(),
\* lazy_random_walk_matrix(): initialise, then return a pointer to the member
Accessor(m) ==
  /\ this # NoGraph
  /\ this' = Initialise(m, this)
  /\ ret' = [op |-> m, arg |-> 0, kind |-> "matrix", val |-> Member(m, this'), read |-> TRUE]

Laplacian == Accessor("laplacian")

NormalisedLaplacian == Accessor("normalised_laplacian")

SignlessLaplacian == Accessor("signless_laplacian")

NormalisedSignlessLaplacian == Accessor("normalised_signless_laplacian")

DegreeMatrix == Accessor("degree")

InverseDegreeMatrix == Accessor("inverse_degree")

LazyRandomWalkMatrix == Accessor("lazy_random_walk")

\* a call whose outcome is the record out
Returns(op, arg, out) ==
  /\ this' = out.graph
  /\ ret' = [op |-> op, arg |-> arg, kind |-> out.kind, val |-> out.val, read |-> out.read]

\* the vertex arguments tried: every vertex, and one index on either side
VertexArgs == (0 - 1) .. this.number_of_vertices_

TotalVolume == this # NoGraph /\ Returns("total_volume", 0, total_volume(this))

NumberOfEdges ==
  /\ this # NoGraph
  /\ Returns("number_of_edges", 0,
             [kind |-> "value", val |-> number_of_edges(this), graph |-> this, read |-> TRUE])

Degree == this # NoGraph /\ \E v \in VertexArgs : Returns("degree", v, degree(this, v))

DegreeUnweighted ==
  this # NoGraph /\ \E v \in VertexArgs : Returns("degree_unweighted", v, degree_unweighted(this, v))

Neighbors == this # NoGraph /\ \E v \in VertexArgs : Returns("neighbors", v, neighbors(this, v))

NeighborsUnweighted ==
  this # NoGraph /\ \E v \in VertexArgs :
    Returns("neighbors_unweighted", v, neighbors_unweighted(this, v))

VertexExists ==
  /\ this # NoGraph
  /\ \E v \in VertexArgs :
       Returns("vertex_exists", v,
               [kind |-> "value", val |-> vertex_exists(this, v), graph |-> this, read |-> FALSE])

\* subgraph(vertices): this is left as it is, the new Graph is the result; the
\* caller takes up one result (Rebind, Destroy, disjoint_union, laplacian)
\* before it asks for the next
Subgraph ==
  /\ this # NoGraph
  /\ ret.op # "subgraph"
  /\ \E vertices \in VertexLists(this.number_of_vertices_) :
       LET out == subgraph(this, vertices)
       IN /\ this' = this
          /\ ret' = [op |-> "subgraph", arg |-> vertices, kind |-> out.kind,
                     val |-> out.graph, read |-> TRUE]

\* the Graphs at hand to pass as other: this one, and the one last returned
Others ==
  {this} \cup (IF ret.op \in {"subgraph", "disjoint_union"} /\ ret.kind = "graph"
               THEN {ret.val} ELSE {})

DisjointUnion ==
  /\ this # NoGraph
  /\ \E other \in Others :
       /\ this.number_of_vertices_ + other.number_of_vertices_ <= MaxUnionN
       /\ \E out \in disjoint_union(this, other) :
            /\ this' = (IF out.kind = "abort" THEN NoGraph ELSE this)
            /\ ret' = [op |-> "disjoint_union", arg |-> other.adjacency_matrix_,
                       kind |-> out.kind, val |-> out.graph, read |-> TRUE]

\* the caller goes on with the Graph a call returned
Rebind ==
  /\ ret.op \in {"subgraph", "disjoint_union"} /\ ret.kind = "graph"
  /\ this' = ret.val
  /\ ret' = NoCall

\* ------------------------------------------------------------------------
\* Specifications
\* ------------------------------------------------------------------------
\* Spec: Graphs from arbitrary matrices and from the standard constructors,
\* the Graphs built from them, and a call that fills caches of the Graph
Next ==
  \/ Graph_SprsMat
  \/ Graph_CSR
  \/ Standard
  \/ Destroy
  \/ Laplacian
  \/ Subgraph
  \/ DisjointUnion
  \/ Rebind

Spec == Init /\ [][Next]_vars

\* SpecCtor: the constructors alone, on arbitrary matrices
NextCtor ==
  \/ Graph_SprsMat
  \/ Graph_CSR
  \/ Standard
  \/ Destroy

SpecCtor == Init /\ [][NextCtor]_vars

\* SpecCache: the standard graphs and their derived matrices
NextCache ==
  \/ Standard
  \/ Destroy
  \/ Laplacian
  \/ NormalisedLaplacian
  \/ SignlessLaplacian
  \/ NormalisedSignlessLaplacian
  \/ DegreeMatrix
  \/ InverseDegreeMatrix
  \/ LazyRandomWalkMatrix
  \/ TotalVolume

SpecCache == Init /\ [][NextCache]_vars

\* SpecQuery: Graphs from weighted graphs (their adjacency matrix or their
\* Laplacian) and the queries on them
NextQuery ==
  \/ Graph_Weighted
  \/ TotalVolume
  \/ NumberOfEdges
  \/ Degree
  \/ DegreeUnweighted
  \/ Neighbors
  \/ NeighborsUnweighted
  \/ VertexExists

SpecQuery == Init /\ [][NextQuery]_vars

\* average_degree(): total_volume() / number_of_vertices_, kept as the quotient
AverageDegree ==
  /\ this # NoGraph
  /\ LET vol == total_volume(this)
     IN Returns("average_degree", 0, [vol EXCEPT !.val = <<vol.val, this.number_of_vertices_>>])

\* operator==(lhs, rhs): the three CSR vectors of the adjacency matrices agree
GraphsEqual(lhs, rhs) ==
  LET outerIndicesEqual == sprsMatOuterStarts(lhs.adjacency_matrix_) = sprsMatOuterStarts(rhs.adjacency_matrix_)
      innerIndicesEqual == sprsMatInnerIndices(lhs.adjacency_matrix_) = sprsMatInnerIndices(rhs.adjacency_matrix_)
      valuesEqual == sprsMatValues(lhs.adjacency_matrix_) = sprsMatValues(rhs.adjacency_matrix_)
  IN (outerIndicesEqual /\ innerIndicesEqual) /\ valuesEqual

\* this == other, other one of the Graphs at hand
Equality ==
  /\ this # NoGraph
  /\ \E other \in Others :
       Returns("equality", other.adjacency_matrix_,
               [kind |-> "value", val |-> GraphsEqual(this, other), graph |-> this, read |-> TRUE])

\* the caller lets the last result go and keeps the Graph
Drop ==
  /\ this # NoGraph /\ ret.op # "none"
  /\ ret' = NoCall
  /\ UNCHANGED this

\* SpecFrame: the standard graphs, the Graphs built from them, and every
\* operation of a constructed Graph; the caller lets a result go before the
\* next call, unless the call is made with that result
NextFrame ==
  \/ Standard
  \/ Destroy
  \/ Drop
  \/ Rebind
  \/ DisjointUnion
  \/ Equality
  \/ /\ ret.op = "none"
     /\ \/ Laplacian
        \/ NormalisedLaplacian
        \/ SignlessLaplacian
        \/ NormalisedSignlessLaplacian
        \/ DegreeMatrix
        \/ InverseDegreeMatrix
        \/ LazyRandomWalkMatrix
        \/ TotalVolume
        \/ AverageDegree
        \/ NumberOfEdges
        \/ Degree
        \/ DegreeUnweighted
        \/ Neighbors
        \/ NeighborsUnweighted
        \/ VertexExists
        \/ Subgraph

SpecFrame == Init /\ [][NextFrame]_vars

\* ------------------------------------------------------------------------
\* One Graph shared by two threads that both call laplacian()
\* ------------------------------------------------------------------------
\* the threads, and how the caller shares the Graph with them
LazyThreads == {1, 2}

ShareModes == {"unsynchronised", "serialised", "prewarmed"}

\* an initialiser whose flag test never returns early
NeedsInitAlways(flag) == TRUE

\* if (lap_init_) return;  if (deg_init_) return;
NeedsInit(flag) == ~flag

\* the thread's position is pc
LazyAt(t, pc) == ret.op = "share" /\ ret.kind = "running" /\ ret.val.pc[t] = pc

LazyGoto(t, pc, raced) ==
  ret' = [ret EXCEPT !.val = [pc |-> [ret.val.pc EXCEPT ![t] = pc],
                              raced |-> ret.val.raced \/ raced]]

\* the threads inside laplacian()
LazyInside == {t \in LazyThreads : ret.val.pc[t] \notin {"idle", "returned"}}

\* the caller hands the Graph to the threads: as it is, with a lock it will
\* hold around each call, or after a call of laplacian() of its own
Lazy_Share ==
  /\ this # NoGraph /\ ret.op # "none" /\ ret.op # "share"
  /\ \E mode \in ShareModes :
       /\ this' = IF mode = "prewarmed" THEN initialise_laplacian_(this) ELSE this
       /\ ret' = [op |-> "share", arg |-> mode, kind |-> "running",
                  val |-> [pc |-> [t \in LazyThreads |-> "idle"], raced |-> FALSE],
                  read |-> FALSE]

\* thread t calls laplacian()
Lazy_Call(t) ==
  /\ LazyAt(t, "idle")
  /\ ret.arg = "serialised" => LazyInside = {}
  /\ LazyGoto(t, "lap_check", FALSE)
  /\ UNCHANGED this

\* initialise_laplacian_: if (lap_init_) return;
Lazy_LapCheck(t) ==
  /\ LazyAt(t, "lap_check")
  /\ LazyGoto(t, IF NeedsInit(this.lap_init_) THEN "deg_check" ELSE "returning", FALSE)
  /\ UNCHANGED this

\* initialise_degree_matrix_: if (deg_init_) return;
Lazy_DegCheck(t) ==
  /\ LazyAt(t, "deg_check")
  /\ LazyGoto(t, IF NeedsInit(this.deg_init_) THEN "deg_reset" ELSE "lap_build", FALSE)
  /\ UNCHANGED this

\* degree_matrix_ = SprsMat(cols, cols)
Lazy_DegReset(t) ==
  /\ LazyAt(t, "deg_reset")
  /\ this' = [this EXCEPT !.degree_matrix_ = ZeroMat(this.adjacency_matrix_.n)]
  /\ LazyGoto(t, "deg_insert", \E u \in LazyThreads \ {t} : ret.val.pc[u] = "deg_insert")

\* the loop of degree_matrix_.insert(i, i), makeCompressed, deg_init_ = true;
\* an insert into the member while another thread writes it is a data race,
\* and the process may stop there
Lazy_DegInsert(t) ==
  /\ LazyAt(t, "deg_insert")
  /\ LET raced == \/ \E u \in LazyThreads \ {t} : ret.val.pc[u] = "deg_insert"
                  \/ this.degree_matrix_ # ZeroMat(this.adjacency_matrix_.n)
     IN \/ /\ this' = initialise_degree_matrix_Always(this)
           /\ LazyGoto(t, "lap_build", raced)
        \/ /\ raced
           /\ this' = NoGraph
           /\ ret' = [ret EXCEPT !.kind = "abort"]

\* laplacian_matrix_ = degree_matrix_ - adjacency_matrix_; lap_init_ = true
Lazy_LapBuild(t) ==
  /\ LazyAt(t, "lap_build")
  /\ LET A == this.adjacency_matrix_
     IN this' = [this EXCEPT !.laplacian_matrix_ =
                               [n |-> A.n,
                                val |-> [p \in Pairs(A.n) |->
                                           coeff(this.degree_matrix_, p[1], p[2]) - A.val[p]]],
                             !.lap_init_ = TRUE,
                             !.builds = Built(this, "laplacian")]
  /\ LazyGoto(t, "returning", \E u \in LazyThreads \ {t} : ret.val.pc[u] \in {"deg_insert", "lap_build"})

\* return &laplacian_matrix_
Lazy_Return(t) ==
  /\ LazyAt(t, "returning")
  /\ LazyGoto(t, "returned", FALSE)
  /\ UNCHANGED this

\* the threads are joined and the Graph goes away
Lazy_Join ==
  /\ ret.op = "share"
  /\ ret.kind = "abort" \/ \A t \in LazyThreads : ret.val.pc[t] = "returned"
  /\ this' = NoGraph
  /\ ret' = NoCall

\* SpecLazy: a standard graph, shared by two threads that call laplacian()
NextLazy ==
  \/ Standard
  \/ Lazy_Share
  \/ \E t \in LazyThreads :
       \/ Lazy_Call(t)
       \/ Lazy_LapCheck(t)
       \/ Lazy_DegCheck(t)
       \/ Lazy_DegReset(t)
       \/ Lazy_DegInsert(t)
       \/ Lazy_LapBuild(t)
       \/ Lazy_Return(t)
  \/ Lazy_Join

SpecLazy == Init /\ [][NextLazy]_vars


\* ========================================================================
\* The CKNS Gaussian KDE (src/unnamed/part_001)
\* ========================================================================
\* Values.  The data is n points; a query point q sees data point i at the
\* squared distance r_s^2 = s * LOG_TWO / a of one of the shells s, where
\* gaussian_kernel(a, r_s^2) = 2^-s exactly, so that every term
\* kernel / p_sampling a hash unit adds is a power of two and the sums
\* are exact.  eps lies on a grid of halves: eps = eps2 / EpsDen.

\* largest number of data points
MaxPoints == 9
\* eps2 ranges over -1 .. MaxEps2 (eps over -1/2 .. MaxEps2 / 2)
MaxEps2 == 3
\* largest std::thread::hardware_concurrency()
MaxThreads == 2
\* number of outcomes of the random sampling that are told apart
MaxSeed == 2
\* query points are 1 .. MaxQueries, a query holds at most MaxQueryRows of them
MaxQueries == 2
MaxQueryRows == 1
\* largest number of calls of add_hash_unit of one construction
MaxTasks == 6

EpsDen == 2

\* K1_CONSTANT = 0.2 = K1_NUM / K1_DEN
K1_NUM == 1
K1_DEN == 5

RECURSIVE CeilLog2(_)
\* (StagInt) ceil(log2(n))
CeilLog2(n) == IF n <= 1 THEN 0 ELSE 1 + CeilLog2((n + 1) \div 2)

\* log(n), the natural logarithm, in thousandths, rounded up
LogMilli ==
  <<0, 694, 1099, 1387, 1610, 1792, 1946, 2080, 2198, 2303, 2398, 2485,
    2565, 2640, 2709, 2773>>

\* ceil(a / b) for a >= 0, b > 0
CeilDiv(a, b) == (a + b - 1) \div b

\* the smallest integer x with log(x) >= k (ceil(e^k)), k = 0 .. 7
CeilExp == <<1, 3, 8, 21, 55, 149, 404, 1097>>

\* ckns_J: assert(log_nmu < log2(n)) is looked at where ckns_J is called
ckns_J(n, log_nmu) == CeilLog2(n) - log_nmu

\* the assertion of ckns_J: log_nmu < log2(n), for an integer log_nmu >= 0
ckns_J_assertion(n, log_nmu) == 2 ^ log_nmu < n

\* max_log_nmu = (StagInt) ceil(log2(n))
max_log_nmu(n) == CeilLog2(n)

\* num_log_nmu_iterations = ceil(max_log_nmu / 2): the division is between
\* integers, so the quotient is already rounded down when ceil sees it
num_log_nmu_iterations(n) == max_log_nmu(n) \div 2

\* k1 = ceil(K1_CONSTANT * log(n) / SQR(eps)), for eps2 # 0
k1_of(n, eps2) ==
  CeilDiv(K1_NUM * LogMilli[n] * EpsDen * EpsDen, K1_DEN * 1000 * eps2 * eps2)

\* eps > 0 && eps <= 1
eps_in_range(eps2) == eps2 > 0 /\ eps2 <= EpsDen

\* if (j >= 1)
ShellExists(task) == task.j >= 1

\* the t-th pass (t from 0) through the body of the three nested loops of the
\* constructor: j_offset from max_J - 1 down, log_nmu_iter up, iter up
TaskAt(n, k1, t) ==
  LET num == num_log_nmu_iterations(n)
      j_offset == (ckns_J(n, 0) - 1) - (t \div (num * k1))
      log_nmu_iter == (t \div k1) % num
      log_nmu == log_nmu_iter * 2
  IN [log_nmu_iter |-> log_nmu_iter, log_nmu |-> log_nmu, iter |-> t % k1,
      j |-> ckns_J(n, log_nmu) - j_offset]

\* the calls of add_hash_unit the constructor pushes to the pool, in order
Tasks(n, k1) ==
  SelectSeq([t \in 1 .. ckns_J(n, 0) * num_log_nmu_iterations(n) * k1 |->
               TaskAt(n, k1, t - 1)], ShellExists)

\* the data points a hash unit samples.  The draws are random; the outcomes
\* told apart are: every point (seed 1), or the points of one residue class
SampleOf(seed, n, task) ==
  {i \in 1 .. n : (i + task.iter + task.j) % seed = 0}

\* CKNSGaussianKDEHashUnit(a, data, log_nmu, j), below the cutoff
CKNSGaussianKDEHashUnit(seed, n, task) ==
  [log_nmu |-> task.log_nmu, j |-> task.j, all_data |-> SampleOf(seed, n, task)]

\* the shell s of data point i seen from q: squared_distance(q, i) = r_s^2;
\* shell max_log_nmu + 1 is beyond every r_J
ShellOf(n, q, i) == ((i + q) % (CeilLog2(n) + 1)) + 1

\* CKNSGaussianKDEHashUnit::query: the unit's own j and log_nmu give the
\* annulus (r_{j-1}^2, r_j^2] and p_sampling; each neighbour in the annulus
\* adds gaussian_kernel / p_sampling = 2^-j / (2^-j * 2^-log_nmu)
HashUnitQuery(unit, n, q) ==
  Cardinality({i \in unit.all_data : ShellOf(n, q, i) = unit.j}) * (2 ^ unit.log_nmu)

RECURSIVE IterEstimateByPosition(_, _, _, _)
\* as IterEstimate, with the unit at position j - 1 read as the unit of shell j
IterEstimateByPosition(units, J, n, q) ==
  IF J <= 0 THEN 0
  ELSE IterEstimateByPosition(units, J - 1, n, q)
         + HashUnitQuery([units[J] EXCEPT !.j = J], n, q)

RECURSIVE IterEstimate(_, _, _, _)
\* this_iter_estimates[i]: the sum over j = 1 .. J of
\* hash_units[log_nmu_iter][iter][j - 1].query(query_points[i])
IterEstimate(units, J, n, q) ==
  IF J <= 0 THEN 0
  ELSE IterEstimate(units, J - 1, n, q) + HashUnitQuery(units[J], n, q)

RECURSIVE SortedSeq(_)
\* the values of a sequence in ascending order
SortedSeq(s) ==
  IF Len(s) = 0 THEN << >>
  ELSE LET k == CHOOSE a \in 1 .. Len(s) : \A b \in 1 .. Len(s) : s[a] <= s[b]
       IN <<s[k]>> \o SortedSeq(SubSeq(s, 1, k - 1) \o SubSeq(s, k + 1, Len(s)))

\* median(v): nth_element at v.size() / 2, then v[n]
median(v) == SortedSeq(v)[(Len(v) \div 2) + 1]

\* the acceptance test as a comparison with 2^log_nmu
AcceptAtLeastMu(this_mu_estimate, log_nmu) == this_mu_estimate >= 2 ^ log_nmu

\* if (log(this_mu_estimates[i]) >= (StagReal) log_nmu): the natural
\* logarithm of the estimate against log_nmu itself
AcceptEstimate(this_mu_estimate, log_nmu) == this_mu_estimate >= CeilExp[log_nmu + 1]

\* the skip that is never taken
AlreadyEstimatedNever(result) == FALSE

\* if (results[i] > 0) continue;
AlreadyEstimated(result) == result > 0

\* the estimates of one level for one query point: estimates[i][iter]
LevelEstimates(kde, log_nmu_iter, q, result) ==
  [iter1 \in 1 .. kde.k1 |->
     IF AlreadyEstimated(result) THEN 0
     ELSE IterEstimate(kde.hash_units[<<log_nmu_iter, iter1 - 1>>],
                       ckns_J(kde.n, log_nmu_iter * 2), kde.n, q)]

RECURSIVE LevelScan(_, _, _, _)
\* the loop over log_nmu_iter from num_log_nmu_iterations - 1 down to 0 for
\* one query point; result is results[i] times n
LevelScan(kde, q, log_nmu_iter, result) ==
  IF log_nmu_iter < 0 THEN result
  ELSE LET log_nmu == log_nmu_iter * 2
           this_mu_estimate == median(LevelEstimates(kde, log_nmu_iter, q, result))
       IN LevelScan(kde, q, log_nmu_iter - 1,
                    IF AlreadyEstimated(result) THEN result
                    ELSE IF AcceptEstimate(this_mu_estimate, log_nmu)
                         THEN this_mu_estimate
                         ELSE result)

\* CKNSGaussianKDE::query for one query point, times n:
\* results[i] = 0, the scan, then if (results[i] == 0) results[i] = 1 / n
QueryPoint(kde, q) ==
  LET result == LevelScan(kde, q, kde.num_log_nmu_iterations - 1, 0)
  IN IF result = 0 THEN 1 ELSE result

\* every inner list holds a unit at each position the query reads
LatticeReadable(kde) ==
  \A p \in DOMAIN kde.hash_units :
    Len(kde.hash_units[p]) >= ckns_J(kde.n, p[1] * 2)

\* future.get() returns at once, whatever the task's state
future_ready_NoWait(pc) == TRUE

\* future.get() returns once the task has returned
future_ready(pc) == pc = "done"

\* a mutex that never blocks
lock_enabled_NoMutex(holder) == TRUE

\* hash_units_mutex.lock() goes through when no task holds the mutex
lock_enabled(holder) == holder = 0

\* the tasks a worker thread is executing
Running(futures) ==
  {t \in 1 .. Len(futures) : futures[t].pc \notin {"queued", "done"}}

\* ------------------------------------------------------------------------
\* The KDE object and the calls on it
\* ------------------------------------------------------------------------
NoKDE == [null |-> TRUE]

InitKDE == this = NoKDE /\ ret = NoCall

\* the outcomes of the constructor up to the creation of the thread pool
\* (part_001:211-235).  NDEBUG tells whether assert is compiled out.  With
\* eps = 0 the quotient in k1 is infinite (or 0/0) and its conversion to
\* StagInt is undefined: the resize of the inner lists fails or the process
\* ends, and without inner lists k1 is never used
CKNSGaussianKDE(n, eps2, num_threads, seed, NDEBUG) ==
  LET num == num_log_nmu_iterations(n)
      k1 == IF eps2 = 0 THEN 0 ELSE k1_of(n, eps2)
      kde == [null |-> FALSE, n |-> n, seed |-> seed,
              num_threads |-> num_threads,
              max_log_nmu |-> max_log_nmu(n),
              num_log_nmu_iterations |-> num,
              k1 |-> k1,
              hash_units |-> [p \in (0 .. num - 1) \X (0 .. k1 - 1) |-> << >>],
              hash_units_mutex |-> 0,
              futures |-> << >>,
              phase |-> IF Len(Tasks(n, k1)) = 0 THEN "joining" ELSE "submitting"]
  IN IF ~NDEBUG /\ ~eps_in_range(eps2) THEN {[kind |-> "abort", kde |-> NoKDE]}
     ELSE IF eps2 = 0 /\ num > 0
          THEN {[kind |-> "length_error", kde |-> NoKDE], [kind |-> "abort", kde |-> NoKDE]}
          ELSE IF ~NDEBUG /\ ~ckns_J_assertion(n, 0)
               THEN {[kind |-> "abort", kde |-> NoKDE]}
               ELSE {[kind |-> "constructing", kde |-> kde]}

\* a caller constructs a CKNSGaussianKDE; the constructor runs up to its loops
CKNS_Construct ==
  /\ this = NoKDE /\ ret.op = "none"
  /\ \E n \in 1 .. MaxPoints, eps2 \in (0 - 1) .. MaxEps2,
        num_threads \in 1 .. MaxThreads, seed \in 1 .. MaxSeed, NDEBUG \in BOOLEAN :
       \E out \in CKNSGaussianKDE(n, eps2, num_threads, seed, NDEBUG) :
         /\ out.kde # NoKDE => Len(Tasks(n, out.kde.k1)) <= MaxTasks
         /\ this' = out.kde
         /\ ret' = [op |-> "CKNSGaussianKDE", arg |-> [n |-> n, eps2 |-> eps2],
                    kind |-> out.kind, val |-> 0, read |-> FALSE]

\* futures.push_back(pool.push(...)): the constructor hands the next call of
\* add_hash_unit to the pool; after the last one its loops are over
CKNS_Submit ==
  /\ this # NoKDE /\ this.phase = "submitting"
  /\ LET tasks == Tasks(this.n, this.k1)
         t == Len(this.futures) + 1
     IN /\ this' = [this EXCEPT
                      !.futures = Append(@, [task |-> tasks[t], pc |-> "queued", at |-> 0]),
                      !.phase = IF t = Len(tasks) THEN "joining" ELSE "submitting"]
        /\ UNCHANGED ret

\* a free worker thread takes a task from the queue and constructs the hash
\* unit (add_hash_unit up to the lock)
CKNS_Build ==
  /\ this # NoKDE
  /\ \E t \in 1 .. Len(this.futures) :
       /\ this.futures[t].pc = "queued"
       /\ Cardinality(Running(this.futures)) < this.num_threads
       /\ this' = [this EXCEPT !.futures[t].pc = "built"]
  /\ UNCHANGED ret

\* hash_units_mutex.lock()
CKNS_Lock ==
  /\ this # NoKDE
  /\ \E t \in 1 .. Len(this.futures) :
       /\ this.futures[t].pc = "built"
       /\ lock_enabled(this.hash_units_mutex)
       /\ this' = [this EXCEPT !.futures[t].pc = "locked", !.hash_units_mutex = t]
  /\ UNCHANGED ret

\* push_back, first half: the end of the inner list is read
CKNS_PushBackRead ==
  /\ this # NoKDE
  /\ \E t \in 1 .. Len(this.futures) :
       LET task == this.futures[t].task
       IN /\ this.futures[t].pc = "locked"
          /\ this' = [this EXCEPT
                        !.futures[t].pc = "writing",
                        !.futures[t].at = Len(this.hash_units[<<task.log_nmu_iter, task.iter>>]) + 1]
  /\ UNCHANGED ret

\* push_back, second half: the unit is written at the end that was read
CKNS_PushBackWrite ==
  /\ this # NoKDE
  /\ \E t \in 1 .. Len(this.futures) :
       LET task == this.futures[t].task
           unit == CKNSGaussianKDEHashUnit(this.seed, this.n, task)
       IN /\ this.futures[t].pc = "writing"
          /\ this' = [this EXCEPT
                        !.futures[t].pc = "pushed",
                        !.hash_units[<<task.log_nmu_iter, task.iter>>] =
                           SubSeq(@, 1, this.futures[t].at - 1) \o <<unit>>]
  /\ UNCHANGED ret

\* hash_units_mutex.unlock(); return 0
CKNS_Unlock ==
  /\ this # NoKDE
  /\ \E t \in 1 .. Len(this.futures) :
       /\ this.futures[t].pc = "pushed"
       /\ this' = [this EXCEPT !.futures[t].pc = "done", !.hash_units_mutex = 0]
  /\ UNCHANGED ret

\* the loop of future.get() over all futures (each get blocks until its task
\* has returned), pool.stop(), and the constructor returns
CKNS_Return ==
  /\ this # NoKDE /\ this.phase = "joining"
  /\ \A t \in 1 .. Len(this.futures) : future_ready(this.futures[t].pc)
  /\ this' = [this EXCEPT !.phase = "ready"]
  /\ ret' = [ret EXCEPT !.kind = "object"]

\* the query matrices tried: up to MaxQueryRows query points
QueryMatrices == UNION {[1 .. m -> 1 .. MaxQueries] : m \in 0 .. MaxQueryRows}

\* CKNSGaussianKDE::query(query_mat): val[i] is results[i] times n.  A read
\* of hash_units[..][..][j - 1] past the end of an inner list is undefined
CKNS_Query ==
  /\ this # NoKDE /\ this.phase = "ready"
  /\ \E query_points \in QueryMatrices :
       ret' = IF LatticeReadable(this)
              THEN [op |-> "query", arg |-> query_points, kind |-> "results",
                    val |-> [i \in 1 .. Len(query_points) |-> QueryPoint(this, query_points[i])],
                    read |-> TRUE]
              ELSE [op |-> "query", arg |-> query_points, kind |-> "abort",
                    val |-> 0, read |-> TRUE]
  /\ UNCHANGED this

\* the caller lets the KDE go
KDE_Destroy ==
  /\ \/ this # NoKDE /\ this.phase = "ready"
     \/ this = NoKDE /\ ret.op # "none"
  /\ this' = NoKDE
  /\ ret' = NoCall

\* SpecKDE: construction of a CKNSGaussianKDE by the pool's workers, and
\* queries on the constructed object
NextKDE ==
  \/ CKNS_Construct
  \/ CKNS_Submit
  \/ CKNS_Build
  \/ CKNS_Lock
  \/ CKNS_PushBackRead
  \/ CKNS_PushBackWrite
  \/ CKNS_Unlock
  \/ CKNS_Return
  \/ CKNS_Query
  \/ KDE_Destroy

SpecKDE == InitKDE /\ [][NextKDE]_vars


\* largest number of add_hash_unit calls of a construction that is repeated
MaxTasksTwice == 3

\* a caller that holds a constructed CKNSGaussianKDE constructs a second one
\* on the same data, the global random generator seeded as for the first;
\* ret.val keeps the lattice of the first
CKNS_ConstructAgain ==
  /\ this # NoKDE /\ this.phase = "ready"
  /\ Len(this.futures) <= MaxTasksTwice
  /\ ret.op = "CKNSGaussianKDE" /\ ret.kind = "object"
  /\ \E NDEBUG \in BOOLEAN :
       \E out \in CKNSGaussianKDE(this.n, ret.arg.eps2, this.num_threads, this.seed, NDEBUG) :
         /\ out.kind = "constructing"
         /\ this' = out.kde
         /\ ret' = [op |-> "CKNSGaussianKDE_again", arg |-> ret.arg,
                    kind |-> "constructing", val |-> this.hash_units, read |-> FALSE]

\* SpecKDETwice: two constructions of a CKNSGaussianKDE, one after the other,
\* on the same data with the same seed
NextKDETwice ==
  \/ CKNS_Construct
  \/ CKNS_ConstructAgain
  \/ CKNS_Submit
  \/ CKNS_Build
  \/ CKNS_Lock
  \/ CKNS_PushBackRead
  \/ CKNS_PushBackWrite
  \/ CKNS_Unlock
  \/ CKNS_Return
  \/ KDE_Destroy

SpecKDETwice == InitKDE /\ [][NextKDETwice]_vars

\* ---------------------------------------------------------------------------
\* CKNSGaussianKDEHashUnit::query on its candidate points.  Squared distances
\* are counted in half steps of LOG_TWO / a, so that the shell radii fall on
\* the grid and a candidate can lie on a radius, inside an annulus, at the
\* query point or beyond the last shell.
\* ---------------------------------------------------------------------------

\* largest J of a hash unit that is queried on its own
MaxShell == 3
\* largest number of candidate points (near_neighbours) of one unit query
MaxNeighbours == 2

\* squared distances per LOG_TWO / a
DistDen == 2

\* ckns_gaussian_rj_squared(j, a) = j * LOG_TWO / a
ckns_gaussian_rj_squared(j) == j * DistDen

\* 1000 * gaussian_kernel(a, d_sq) = 1000 * exp(-a * d_sq) = 1000 * 2^(-d_sq / DistDen)
KernelMilli == <<1000, 707, 500, 354, 250, 177, 125, 88, 63, 44, 31, 22>>
gaussian_kernel(d_sq) == KernelMilli[d_sq + 1]

\* 1 / ckns_p_sampling(j, log_nmu) = 1 / (2^-j * 2^-log_nmu)
ckns_p_sampling_inverse(j, log_nmu) == (2 ^ j) * (2 ^ log_nmu)

\* the test of the loop without its lower bound
InAnnulusUpTo(d_sq, j) == d_sq <= ckns_gaussian_rj_squared(j)

\* d_sq <= rj_squared && d_sq > rj_minus_1_squared, rj_minus_1_squared 0 for j = 1
InAnnulus(d_sq, j) ==
  LET rj_squared == ckns_gaussian_rj_squared(j)
      rj_minus_1_squared == IF j > 1 THEN ckns_gaussian_rj_squared(j - 1) ELSE 0
  IN d_sq <= rj_squared /\ d_sq > rj_minus_1_squared

\* the loop of CKNSGaussianKDEHashUnit::query over near_neighbours (the squared
\* distances of the candidates from the query point), times 1000
HashUnit_query(j, log_nmu, near_neighbours) ==
  SumTo([i \in 0 .. Len(near_neighbours) - 1 |->
           IF InAnnulus(near_neighbours[i + 1], j)
           THEN gaussian_kernel(near_neighbours[i + 1]) * ckns_p_sampling_inverse(j, log_nmu)
           ELSE 0],
        Len(near_neighbours))

\* the squared distances a candidate can have: 0, every annulus, beyond r_J
Distances == 0 .. (ckns_gaussian_rj_squared(MaxShell) + 1)

\* a hash unit for shell j of J, and the candidates one query point has in it
HashUnit_Construct ==
  /\ this = NoKDE /\ ret.op = "none"
  /\ \E J \in 1 .. MaxShell, log_nmu \in {0, 2}, len \in 0 .. MaxNeighbours :
       \E j \in 1 .. J, near_neighbours \in [1 .. len -> Distances] :
         this' = [null |-> FALSE, phase |-> "unit", J |-> J, j |-> j, log_nmu |-> log_nmu,
                  near_neighbours |-> near_neighbours]
  /\ UNCHANGED ret

\* CKNSGaussianKDEHashUnit::query(q)
HashUnit_Query ==
  /\ this # NoKDE /\ this.phase = "unit" /\ ret.op = "none"
  /\ ret' = [op |-> "unit_query", arg |-> this.j, kind |-> "value",
             val |-> HashUnit_query(this.j, this.log_nmu, this.near_neighbours), read |-> FALSE]
  /\ UNCHANGED this

\* the unit goes away
HashUnit_Destroy ==
  /\ this # NoKDE /\ this.phase = "unit" /\ ret.op = "unit_query"
  /\ this' = NoKDE
  /\ ret' = NoCall

\* SpecHashUnit: one hash unit and a query of it
NextHashUnit == HashUnit_Construct \/ HashUnit_Query \/ HashUnit_Destroy
SpecHashUnit == InitKDE /\ [][NextHashUnit]_vars

\* ========================================================================
\* The exact Gaussian KDE (src/unnamed/part_001)
\* ========================================================================
\* largest number of rows and of columns of a query matrix of ExactGaussianKDE
MaxRows == 3
MaxCols == 2

\* gaussian_kde_exact(a, all_data, query): the sum of gaussian_kernel(a, query,
\* i) = 2^-s over the n data points, over n; kept times n * 2^(max_log_nmu + 1)
gaussian_kde_exact(n, q) ==
  SumTo([i \in 0 .. n - 1 |-> 2 ^ (CeilLog2(n) + 1 - ShellOf(n, q, i + 1))], n)

RECURSIVE ChunksFrom(_, _, _, _)
\* the chunk_results of the chunks chunk_id .. num_threads - 1, in the order
\* the futures are joined
ChunksFrom(n, query_points, num_threads, chunk_id) ==
  IF chunk_id >= num_threads THEN << >>
  ELSE LET chunk_size == Len(query_points) \div num_threads
           this_chunk_start == chunk_id * chunk_size
           this_chunk_end == IF chunk_id = num_threads - 1
                             THEN Len(query_points)
                             ELSE this_chunk_start + chunk_size
       IN [k \in 1 .. this_chunk_end - this_chunk_start |->
             gaussian_kde_exact(n, query_points[this_chunk_start + k])]
          \o ChunksFrom(n, query_points, num_threads, chunk_id + 1)

\* ExactGaussianKDE::query on a matrix of Len(query_points) rows and cols
\* columns.  results has query->cols() elements; the values are written to
\* results[0], results[1], ... on either path, and a write past the end of
\* results is undefined: the process ends, or the write lands outside the
\* vector and the vector is returned as it is
ExactQuery(n, query_points, cols, num_threads) ==
  LET rows == Len(query_points)
      values == IF rows < num_threads
                THEN [i \in 1 .. rows |-> gaussian_kde_exact(n, query_points[i])]
                ELSE ChunksFrom(n, query_points, num_threads, 0)
      results == [k \in 1 .. cols |-> IF k <= Len(values) THEN values[k] ELSE 0]
  IN IF Len(values) > cols
     THEN {[kind |-> "abort", val |-> << >>], [kind |-> "results", val |-> results]}
     ELSE {[kind |-> "results", val |-> results]}

\* ExactGaussianKDE(data, param) on n data points
Exact_Construct ==
  /\ this = NoKDE /\ ret.op = "none"
  /\ \E n \in 1 .. MaxPoints :
       /\ this' = [null |-> FALSE, n |-> n, phase |-> "ready"]
       /\ ret' = [op |-> "ExactGaussianKDE", arg |-> n, kind |-> "object",
                  val |-> 0, read |-> FALSE]

\* ExactGaussianKDE::query(query)
Exact_Query ==
  /\ this # NoKDE
  /\ \E rows \in 0 .. MaxRows, cols \in 1 .. MaxCols, num_threads \in 1 .. MaxThreads :
       \E query_points \in [1 .. rows -> 1 .. MaxQueries] :
         \E out \in ExactQuery(this.n, query_points, cols, num_threads) :
           /\ this' = (IF out.kind = "abort" THEN NoKDE ELSE this)
           /\ ret' = [op |-> "exact_query",
                      arg |-> [query_points |-> query_points, cols |-> cols,
                               num_threads |-> num_threads],
                      kind |-> out.kind, val |-> out.val, read |-> TRUE]

\* SpecExact: an ExactGaussianKDE and the queries on it
NextExact ==
  \/ Exact_Construct
  \/ Exact_Query
  \/ KDE_Destroy

SpecExact == InitKDE /\ [][NextExact]_vars

\* ========================================================================
\* The eigensystem of a Graph matrix (spectrum.h; the tests of
\* src/unnamed/part_000)
\* ========================================================================
\* stag::GraphMatrix and stag::EigenSortRule, as the tests name them
GraphMatrices == {"Adjacency", "Laplacian", "NormalisedLaplacian"}

EigenSortRules == {"Smallest", "Largest"}

\* the argument check with k = n let through
compute_eigensystem_UpToN(g, mat, k, which) ==
  IF k <= 0 \/ k > g.number_of_vertices_
  THEN [graph |-> g, kind |-> "invalid_argument", val |-> 0, read |-> FALSE]
  ELSE [graph |-> g, kind |-> "eigensystem", val |-> k, read |-> TRUE]

\* stag::compute_eigensystem(graph, mat, k, which): the argument check, and
\* the number of eigenpairs returned
compute_eigensystem(g, mat, k, which) ==
  IF k <= 0 \/ k >= g.number_of_vertices_
  THEN [graph |-> g, kind |-> "invalid_argument", val |-> 0, read |-> FALSE]
  ELSE [graph |-> g, kind |-> "eigensystem", val |-> k, read |-> TRUE]

\* a call of compute_eigensystem, with k from -1 to n + 1 as in
\* TEST(SpectrumTest, ArgumentChecking)
ComputeEigensystem ==
  /\ this # NoGraph
  /\ \E mat \in GraphMatrices, k \in (0 - 1) .. (this.number_of_vertices_ + 1),
        which \in EigenSortRules :
       Returns("compute_eigensystem", [mat |-> mat, k |-> k, which |-> which],
               compute_eigensystem(this, mat, k, which))

\* SpecSpectrum: the standard graphs and compute_eigensystem on them
NextSpectrum ==
  \/ Standard
  \/ Destroy
  \/ ComputeEigensystem

SpecSpectrum == Init /\ [][NextSpectrum]_vars

\* ------------------------------------------------------------------------
\* Properties
\* ------------------------------------------------------------------------
\* C1, as the specification states it: a constructor call (on a sparse matrix
\* or on CSR vectors) whose input matrix is asymmetric ends in a domain error
\* and leaves no Graph, whatever the entries that make it asymmetric
C1_AsymmetricInputFails ==
  (/\ ret.op = "Graph"
   /\ \E p \in Pairs(ret.arg.matrix.n) : ret.arg.matrix.val[p] # ret.arg.matrix.val[<<p[2], p[1]>>])
  => (ret.kind = "domain_error" /\ this = NoGraph)

\* C2: degree, degree_unweighted, neighbors and neighbors_unweighted on a
\* vertex index outside [0, n) end in an invalid-argument error before any
\* matrix data is read, and leave the Graph (adjacency, flags, caches) as it was
C2_OutOfRangeVertexRejected ==
  [][(/\ ret'.op \in {"degree", "degree_unweighted", "neighbors", "neighbors_unweighted"}
      /\ (ret'.arg < 0 \/ ret'.arg >= this.number_of_vertices_))
     => (ret'.kind = "invalid_argument" /\ ~ret'.read /\ this' = this)]_vars

\* a call with the index n, or a negative one, rejected on a Graph whose
\* degree matrix is already cached
C2_Witness ==
  /\ this # NoGraph
  /\ this.deg_init_
  /\ ret.op \in {"neighbors", "degree"}
  /\ (ret.arg >= this.number_of_vertices_ \/ ret.arg < 0)
  /\ ret.kind = "invalid_argument"

\* C3: the adjacency matrix of every Graph that exists (from either
\* constructor, a standard constructor, subgraph or disjoint_union) equals its
\* transpose, in every state
C3_AdjacencySymmetric ==
  LET Sym(g) == \A p \in Pairs(g.adjacency_matrix_.n) :
                  g.adjacency_matrix_.val[p] = g.adjacency_matrix_.val[<<p[2], p[1]>>]
  IN /\ this # NoGraph => Sym(this)
     /\ (ret.op \in {"subgraph", "disjoint_union"} /\ ret.kind = "graph") => Sym(ret.val)

\* a Graph returned by disjoint_union that has an edge between two vertices,
\* the Graph it was called on having built its Laplacian before
C3_Witness ==
  /\ ret.op = "disjoint_union"
  /\ ret.kind = "graph"
  /\ this # NoGraph
  /\ this.lap_init_
  /\ \E p \in Pairs(ret.val.adjacency_matrix_.n) :
       p[1] # p[2] /\ ret.val.adjacency_matrix_.val[p] # 0

\* C4: every stored entry of the adjacency matrix of a constructed Graph is
\* >= 0, whatever the signs of the matrix handed to the constructor
C4_AdjacencyNonNegative ==
  this # NoGraph =>
    \A p \in Pairs(this.adjacency_matrix_.n) : this.adjacency_matrix_.val[p] >= 0

\* a Graph built from a matrix of mixed signs whose conversion left a negative
\* entry for the prune to remove
C4_Witness ==
  /\ ret.op = "Graph"
  /\ ret.kind = "graph"
  /\ \E p \in Pairs(ret.arg.matrix.n) : ret.arg.matrix.val[p] < 0
  /\ \E p \in Pairs(ret.arg.matrix.n) : ret.arg.matrix.val[p] > 0
  /\ \E p \in Pairs(ret.arg.matrix.n) :
       LaplacianToAdjacency(ret.arg.matrix).val[p] < 0 /\ this.adjacency_matrix_.val[p] = 0

\* C5, as the specification states it: the constructor takes its input as a
\* Laplacian if and only if some off-diagonal entry is strictly negative, and
\* as the adjacency matrix otherwise, negative diagonal entries included
C5_LaplacianIffOffDiagonalNegative ==
  ret.op = "Graph" =>
    LET M == ret.arg.matrix
        asLaplacian == \E p \in Pairs(M.n) : p[1] # p[2] /\ M.val[p] < 0
        adjacency == prune(IF asLaplacian THEN LaplacianToAdjacency(M) ELSE M)
    IN /\ ret.val <=> asLaplacian
       /\ ret.kind = "graph" => this.adjacency_matrix_ = adjacency

\* C5, amended: the constructor takes its input as a Laplacian if and only if
\* some stored entry, on or off the diagonal, is strictly negative; the Graph
\* it builds has the pruned conversion of the input as its adjacency matrix
C5_LaplacianIffAnyNegative ==
  ret.op = "Graph" =>
    LET M == ret.arg.matrix
        asLaplacian == \E p \in Pairs(M.n) : M.val[p] < 0
        adjacency == prune(IF asLaplacian THEN LaplacianToAdjacency(M) ELSE M)
    IN /\ ret.val <=> asLaplacian
       /\ ret.kind = "graph" => this.adjacency_matrix_ = adjacency

\* a Graph built from a matrix whose only negative entries are on the
\* diagonal, and whose adjacency is not the pruned input
C5_Witness ==
  /\ ret.op = "Graph"
  /\ ret.kind = "graph"
  /\ \E i \in Verts(ret.arg.matrix.n) : ret.arg.matrix.val[<<i, i>>] < 0
  /\ \A p \in Pairs(ret.arg.matrix.n) : p[1] # p[2] => ret.arg.matrix.val[p] >= 0
  /\ this.adjacency_matrix_ # prune(ret.arg.matrix)

\* C6: a Graph constructed from the Laplacian L(G) = D - A of a weighted graph
\* G has A(G)'s entry wherever that entry is larger than the prune epsilon,
\* and no entry elsewhere
C6_LaplacianRoundTrip ==
  (ret.op = "Graph" /\ ret.arg.form = "laplacian") =>
    /\ ret.kind = "graph"
    /\ this.number_of_vertices_ = ret.arg.of.n
    /\ \A p \in Pairs(ret.arg.of.n) :
         this.adjacency_matrix_.val[p] = (IF ret.arg.of.val[p] > EPSILON THEN ret.arg.of.val[p] ELSE 0)

\* a Graph built from the Laplacian of a graph with a self-loop and an edge
\* between two vertices, both above the prune epsilon
C6_Witness ==
  /\ ret.op = "Graph"
  /\ ret.arg.form = "laplacian"
  /\ ret.kind = "graph"
  /\ \E i \in Verts(ret.arg.of.n) : ret.arg.of.val[<<i, i>>] > EPSILON
  /\ \E p \in Pairs(ret.arg.of.n) : p[1] # p[2] /\ ret.arg.of.val[p] > EPSILON

\* C7: every derived matrix is built by the first call of its accessor and
\* never again: a call of an accessor leaves its flag set; a set flag stays
\* set, and the matrix it guards and the number of its constructions stay as
\* they are, across every later call on the Graph
C7_BuiltOnceAndKept ==
  [][(this # NoGraph /\ this' # NoGraph) =>
       \A m \in Derived :
         /\ ret'.op = m => (InitFlag(m, this') /\ ret'.val = Member(m, this'))
         /\ this'.builds[m] <= 1
         /\ InitFlag(m, this) => /\ InitFlag(m, this')
                                 /\ Member(m, this') = Member(m, this)
                                 /\ this'.builds[m] = this.builds[m]]_vars

\* all seven matrices built, each once, and an accessor called again after
C7_Witness ==
  /\ this # NoGraph
  /\ \A m \in Derived : InitFlag(m, this) /\ this.builds[m] = 1
  /\ ret.op = "degree"

\* C8: degree(v) is the sum of row v of A plus A[v,v] for every vertex v, and
\* total_volume() is the sum of these degrees over the vertices
C8_DegreeCountsLoopTwice ==
  LET A == this.adjacency_matrix_
      Deg(v) == RowSum(A, v) + A.val[<<v, v>>]
  IN /\ ret.op = "degree" =>
          IF ret.arg \in Verts(A.n) THEN ret.kind = "value" /\ ret.val = Deg(ret.arg)
          ELSE ret.kind = "invalid_argument"
     /\ ret.op = "total_volume" => ret.val = SumTo([v \in Verts(A.n) |-> Deg(v)], A.n)

\* the degree of a vertex that has a self-loop and another neighbour
C8_Witness ==
  /\ ret.op = "degree"
  /\ ret.kind = "value"
  /\ this.adjacency_matrix_.val[<<ret.arg, ret.arg>>] # 0
  /\ \E u \in Verts(this.number_of_vertices_) :
       u # ret.arg /\ this.adjacency_matrix_.val[<<ret.arg, u>>] # 0

\* C9: number_of_edges() is m + s, m the number of edges between distinct
\* vertices and s the number of self-loops
C9_EdgesCountLoopsOnce ==
  ret.op = "number_of_edges" =>
    LET A == this.adjacency_matrix_
        m == Cardinality({p \in Pairs(A.n) : p[1] < p[2] /\ A.val[p] # 0})
        s == Cardinality({i \in Verts(A.n) : A.val[<<i, i>>] # 0})
    IN ret.val = m + s

\* the edge count of a Graph with an edge between two vertices and a self-loop
C9_Witness ==
  /\ ret.op = "number_of_edges"
  /\ \E p \in Pairs(this.number_of_vertices_) : p[1] < p[2] /\ this.adjacency_matrix_.val[p] # 0
  /\ \E i \in Verts(this.number_of_vertices_) : this.adjacency_matrix_.val[<<i, i>>] # 0

\* C10, as the specification states it: neighbors(v) returns one edge
\* {v, u, w} for each u # v with A[v,u] # 0, and never the self-loop entry
C10_NeighborsWithoutLoop ==
  (ret.op = "neighbors" /\ ret.kind = "value") =>
    LET A == this.adjacency_matrix_
        v == ret.arg
        us == {u \in Verts(A.n) : u # v /\ A.val[<<v, u>>] # 0}
    IN /\ Len(ret.val) = Cardinality(us)
       /\ \A u \in us : \E k \in 1 .. Len(ret.val) :
            ret.val[k] = [v1 |-> v, v2 |-> u, weight |-> A.val[<<v, u>>]]
       /\ \A k \in 1 .. Len(ret.val) : ret.val[k].v2 # v

\* C10, amended: neighbors(v) returns one edge {v, u, A[v,u]} for each u with
\* A[v,u] # 0, u = v included, in ascending order of u
C10_NeighborsWalksRow ==
  (ret.op = "neighbors" /\ ret.kind = "value") =>
    LET A == this.adjacency_matrix_
        v == ret.arg
        us == {u \in Verts(A.n) : A.val[<<v, u>>] # 0}
    IN /\ Len(ret.val) = Cardinality(us)
       /\ \A u \in us : \E k \in 1 .. Len(ret.val) :
            ret.val[k] = [v1 |-> v, v2 |-> u, weight |-> A.val[<<v, u>>]]
       /\ \A k \in 1 .. (Len(ret.val) - 1) : ret.val[k].v2 < ret.val[k + 1].v2

\* the neighbours of a vertex with a self-loop and another neighbour: the
\* self-loop edge is in the list
C10_Witness ==
  /\ ret.op = "neighbors"
  /\ ret.kind = "value"
  /\ \E u \in Verts(this.number_of_vertices_) :
       u # ret.arg /\ this.adjacency_matrix_.val[<<ret.arg, u>>] # 0
  /\ \E k \in 1 .. Len(ret.val) :
       ret.val[k] = [v1 |-> ret.arg, v2 |-> ret.arg,
                     weight |-> this.adjacency_matrix_.val[<<ret.arg, ret.arg>>]]

\* C11: subgraph on a list of vertices of the Graph returns a Graph on m
\* vertices, m the number of distinct ids of the list; the ids are renumbered
\* 0 .. m - 1 in the order of their first occurrence; the entry at
\* (new(u), new(v)) is A[u,v] for all listed u, v, and there is no other entry
C11_SubgraphInduced ==
  (/\ ret.op = "subgraph"
   /\ \A k \in 1 .. Len(ret.arg) : ret.arg[k] \in Verts(this.number_of_vertices_))
  => LET vertices == ret.arg
         A == this.adjacency_matrix_
         listed == {vertices[k] : k \in 1 .. Len(vertices)}
         first(u) == CHOOSE k \in 1 .. Len(vertices) :
                       vertices[k] = u /\ \A l \in 1 .. (k - 1) : vertices[l] # u
         new(u) == Cardinality({w \in listed : first(w) < first(u)})
     IN /\ ret.kind = "graph"
        /\ ret.val.number_of_vertices_ = Cardinality(listed)
        /\ ret.val.adjacency_matrix_.n = Cardinality(listed)
        /\ \A u, v \in listed :
             ret.val.adjacency_matrix_.val[<<new(u), new(v)>>] = A.val[<<u, v>>]
        /\ \A p \in Pairs(ret.val.adjacency_matrix_.n) :
             \E u, v \in listed : p = <<new(u), new(v)>>

\* a subgraph from a list that repeats an id before a new one and names a
\* larger id before a smaller one, with an edge between two of its vertices
C11_Witness ==
  /\ ret.op = "subgraph"
  /\ ret.kind = "graph"
  /\ Len(ret.arg) = 3
  /\ ret.arg[1] = ret.arg[2]
  /\ ret.arg[3] < ret.arg[1]
  /\ ret.val.adjacency_matrix_.val[<<0, 1>>] # 0

\* C12, as the specification states it: G.disjoint_union(H) is a Graph on
\* n + n' vertices whose adjacency matrix is block-diagonal, A_G in the first
\* n rows and columns and A_H in the last n', for every G and H, an H whose
\* first vertices are isolated or that has no edge included
C12_DisjointUnionBlockDiagonal ==
  ret.op = "disjoint_union" =>
    /\ ret.kind = "graph"
    /\ LET G == this.adjacency_matrix_
           H == ret.arg
           U == ret.val.adjacency_matrix_
       IN /\ ret.val.number_of_vertices_ = G.n + H.n
          /\ U.n = G.n + H.n
          /\ \A p \in Pairs(G.n + H.n) :
               U.val[p] = (IF p[1] < G.n /\ p[2] < G.n THEN G.val[p]
                           ELSE IF p[1] >= G.n /\ p[2] >= G.n
                                THEN H.val[<<p[1] - G.n, p[2] - G.n>>]
                                ELSE 0)

\* C13: when the constructor of CKNSGaussianKDE has returned, every
\* add_hash_unit task it pushed has returned, and every inner list
\* hash_units[log_nmu_iter][iter], 0 <= log_nmu_iter < num_log_nmu_iterations,
\* 0 <= iter < k1, holds exactly J(2 * log_nmu_iter) hash units, one for each
\* shell j in 1 .. J; a query reads the lattice only after that point.
C13_LatticeCompleteOnReturn ==
  /\ (this # NoKDE /\ this.phase = "ready") =>
       /\ Len(this.futures) = Len(Tasks(this.n, this.k1))
       /\ \A t \in 1 .. Len(this.futures) : this.futures[t].pc = "done"
       /\ DOMAIN this.hash_units =
            (0 .. this.num_log_nmu_iterations - 1) \X (0 .. this.k1 - 1)
       /\ \A p \in DOMAIN this.hash_units :
            LET units == this.hash_units[p]
                J == ckns_J(this.n, 2 * p[1])
            IN /\ Len(units) = J
               /\ \A j \in 1 .. J : \E k \in 1 .. Len(units) : units[k].j = j
               /\ \A k \in 1 .. Len(units) : units[k].log_nmu = 2 * p[1]
  /\ (ret.op = "query" /\ ret.read) => (this # NoKDE /\ this.phase = "ready")

\* a constructed KDE with two levels, one of whose inner lists does not start
\* with the unit of shell 1, which a query has read
C13_Witness ==
  /\ this # NoKDE /\ this.phase = "ready" /\ this.num_log_nmu_iterations = 2
  /\ \E p \in DOMAIN this.hash_units : this.hash_units[p][1].j > 1
  /\ ret.op = "query" /\ ret.kind = "results"

\* C14: at most one worker is between hash_units_mutex.lock() and unlock() at
\* any time, the worker that holds the mutex; the hash unit is built before
\* the lock is taken and only the push_back happens inside; no push is lost:
\* every task past its push_back has its unit in its inner list, and the list
\* holds nothing else.
C14_PushesSerialised ==
  this # NoKDE =>
    LET inside == {t \in 1 .. Len(this.futures) :
                     this.futures[t].pc \in {"locked", "writing", "pushed"}}
        pushed(p) == {t \in 1 .. Len(this.futures) :
                        /\ this.futures[t].pc \in {"pushed", "done"}
                        /\ <<this.futures[t].task.log_nmu_iter, this.futures[t].task.iter>> = p}
    IN /\ Cardinality(inside) <= 1
       /\ \A t \in inside : this.hash_units_mutex = t
       /\ inside = {} => this.hash_units_mutex = 0
       /\ \A p \in DOMAIN this.hash_units :
            /\ Len(this.hash_units[p]) = Cardinality(pushed(p))
            /\ \A t \in pushed(p) : \E k \in 1 .. Len(this.hash_units[p]) :
                 this.hash_units[p][k] =
                   CKNSGaussianKDEHashUnit(this.seed, this.n, this.futures[t].task)

\* one worker is inside its push_back while another, its unit built, waits
\* for the mutex to push to the same inner list
C14_Witness ==
  /\ this # NoKDE
  /\ \E t, u \in 1 .. Len(this.futures) :
       /\ this.futures[t].pc = "writing" /\ this.futures[u].pc = "built"
       /\ this.futures[t].task.log_nmu_iter = this.futures[u].task.log_nmu_iter
       /\ this.futures[t].task.iter = this.futures[u].task.iter
       /\ this.hash_units_mutex = t

\* the inner list p with the unit of shell j at position j
InShellOrder(kde, p) ==
  [j \in 1 .. ckns_J(kde.n, 2 * p[1]) |->
     CKNSGaussianKDEHashUnit(kde.seed, kde.n,
       [log_nmu_iter |-> p[1], log_nmu |-> 2 * p[1], iter |-> p[2], j |-> j])]

\* C15: for a fixed content of each hash unit, the estimate e(iter) that query
\* computes at a level from the inner list hash_units[log_nmu_iter][iter] is
\* the same for every order in which the tasks completed: it is the estimate
\* computed from the list with the unit of shell j at position j.
C15_EstimateIgnoresOrder ==
  (this # NoKDE /\ this.phase = "ready" /\ LatticeReadable(this)) =>
    \A p \in DOMAIN this.hash_units, q \in 1 .. MaxQueries :
      LET J == ckns_J(this.n, 2 * p[1])
      IN IterEstimate(this.hash_units[p], J, this.n, q)
           = IterEstimate(InShellOrder(this, p), J, this.n, q)

\* a constructed KDE with an inner list whose units are not in shell order,
\* sample different points, and give a positive estimate
C15_Witness ==
  /\ this # NoKDE /\ this.phase = "ready"
  /\ \E p \in DOMAIN this.hash_units, q \in 1 .. MaxQueries :
       /\ Len(this.hash_units[p]) >= 2
       /\ this.hash_units[p][1].j > this.hash_units[p][2].j
       /\ this.hash_units[p][1].all_data # this.hash_units[p][2].all_data
       /\ IterEstimate(this.hash_units[p], ckns_J(this.n, 2 * p[1]), this.n, q) > 0

\* the median of the k1 estimates of a level for a query point not yet estimated
LevelMedian(kde, log_nmu_iter, q) == median(LevelEstimates(kde, log_nmu_iter, q, 0))

\* the levels whose median passes the acceptance test of the code
PassingLevels(kde, q) ==
  {l \in 0 .. kde.num_log_nmu_iterations - 1 :
     AcceptEstimate(LevelMedian(kde, l, q), 2 * l)}

\* C16: for each query point, query scans log_nmu_iter from
\* num_log_nmu_iterations - 1 down to 0 and returns median(e(0 .. k1)) / n of
\* the largest level whose median passes the acceptance test; no smaller level
\* changes an accepted result; if no level passes, it returns the floor 1 / n.
\* (ret.val holds the returned values times n.)
C16_LargestPassingLevel ==
  (ret.op = "query" /\ ret.kind = "results") =>
    \A i \in 1 .. Len(ret.arg) :
      LET passing == PassingLevels(this, ret.arg[i])
          largest == CHOOSE l \in passing : \A m \in passing : m <= l
      IN IF passing = {} THEN ret.val[i] = 1
         ELSE ret.val[i] = LevelMedian(this, largest, ret.arg[i])

\* a query point for which two levels pass with different medians
C16_Witness ==
  /\ ret.op = "query" /\ ret.kind = "results"
  /\ \E i \in 1 .. Len(ret.arg) :
       /\ PassingLevels(this, ret.arg[i]) = {0, 1}
       /\ LevelMedian(this, 0, ret.arg[i]) # LevelMedian(this, 1, ret.arg[i])
       /\ ret.val[i] = LevelMedian(this, 1, ret.arg[i])

\* a query point for which no level passes, on a KDE with a level
C16_WitnessFloor ==
  /\ ret.op = "query" /\ ret.kind = "results"
  /\ this.num_log_nmu_iterations >= 1
  /\ \E i \in 1 .. Len(ret.arg) : PassingLevels(this, ret.arg[i]) = {} /\ ret.val[i] = 1

\* C17: a level's median estimate is accepted if and only if
\* ln(this_mu_estimate) >= log_nmu * ln 2, that is, the estimate is at least
\* 2^log_nmu.
C17_AcceptedIffAtLeastPowerOfTwo ==
  (ret.op = "query" /\ ret.kind = "results") =>
    \A i \in 1 .. Len(ret.arg), l \in 0 .. this.num_log_nmu_iterations - 1 :
      AcceptEstimate(LevelMedian(this, l, ret.arg[i]), 2 * l)
        <=> AcceptAtLeastMu(LevelMedian(this, l, ret.arg[i]), 2 * l)

\* C19: a CKNSGaussianKDE constructed with eps outside (0, 1] is rejected with
\* an invalid-argument error, and no KDE object (no thread pool, no hash unit)
\* is created.
C19_EpsOutOfRangeRejected ==
  (ret.op = "CKNSGaussianKDE" /\ ~eps_in_range(ret.arg.eps2)) =>
    (ret.kind = "invalid_argument" /\ this = NoKDE)

\* C18: ExactGaussianKDE::query on a query matrix of m rows and d columns
\* returns a vector of exactly m entries, for every m >= 0 and d >= 1 (m # d
\* included), on the caller-thread path and on the thread-pool path.
C18_ExactQueryOneEntryPerRow ==
  ret.op = "exact_query" =>
    (ret.kind = "results" /\ Len(ret.val) = Len(ret.arg.query_points))

\* C20: compute_eigensystem(graph, matrix, k, sort_rule) on a graph of n
\* vertices fails with an invalid-argument error for every k <= 0 and every
\* k >= n (k = n included), and accepts every k with 1 <= k <= n - 1.
C20_EigensystemArgumentCheck ==
  ret.op = "compute_eigensystem" =>
    LET k == ret.arg.k
        n == this.number_of_vertices_
    IN /\ (k <= 0 \/ k >= n) => ret.kind = "invalid_argument"
       /\ (1 <= k /\ k <= n - 1) => (ret.kind = "eigensystem" /\ ret.val = k)

\* k = n is rejected
C20_Witness ==
  /\ ret.op = "compute_eigensystem" /\ this # NoGraph
  /\ ret.arg.k = this.number_of_vertices_
  /\ ret.kind = "invalid_argument"

\* C21: constructing the CKNSGaussianKDE twice on the same data with the same
\* seed of the global random generator gives identical lattices: the same
\* hash units with the same sampled points at the same positions, for every
\* scheduling of the worker threads.
C21_SameSeedSameLattice ==
  (ret.op = "CKNSGaussianKDE_again" /\ ret.kind = "object") =>
    this.hash_units = ret.val

\* C22: after construction, for every (log_nmu_iter, iter) and every j in
\* 1 .. J, the hash unit at position j - 1 of hash_units[log_nmu_iter][iter]
\* is the unit built for shell j, under every interleaving of the workers.
C22_UnitOfShellAtItsPosition ==
  (this # NoKDE /\ this.phase = "ready") =>
    \A p \in DOMAIN this.hash_units :
      \A k \in 1 .. Len(this.hash_units[p]) : this.hash_units[p][k].j = k

\* C23: for every data size n, the number of levels built and queried is
\* num_log_nmu_iterations = ceil(log_nmu_max / 2) with log_nmu_max =
\* ceil(log2 n), for odd as well as even log_nmu_max: the levels are
\* log_nmu = 0, 2, ..., 2 * (ceil(log_nmu_max / 2) - 1).
C23_LevelsAreCeilOfHalf ==
  this # NoKDE =>
    /\ this.max_log_nmu = CeilLog2(this.n)
    /\ this.num_log_nmu_iterations = CeilDiv(this.max_log_nmu, 2)
    /\ {p[1] : p \in DOMAIN this.hash_units} \subseteq 0 .. (CeilDiv(this.max_log_nmu, 2) - 1)
    /\ this.k1 > 0 =>
         {p[1] : p \in DOMAIN this.hash_units} = 0 .. (CeilDiv(this.max_log_nmu, 2) - 1)

\* C27: for every data size n >= 1 and every eps in (0, 1], no assertion
\* fails during construction or query of a CKNSGaussianKDE: every call of
\* ckns_J has log_nmu < log2(n), every call of add_hash_unit has
\* log_nmu < max_log_nmu, and every hash unit is built with j <= J.
C27_NoAssertionFails ==
  /\ (ret.op = "CKNSGaussianKDE" /\ eps_in_range(ret.arg.eps2)) => ret.kind # "abort"
  /\ this # NoKDE =>
       \A t \in 1 .. Len(this.futures) :
         LET task == this.futures[t].task
         IN /\ ckns_J_assertion(this.n, task.log_nmu)
            /\ task.log_nmu < this.max_log_nmu
            /\ task.j <= ckns_J(this.n, task.log_nmu)

\* the candidates of the unit in `this` at squared distance d_sq
CandidatesAt(d_sq) ==
  Cardinality({i \in 1 .. Len(this.near_neighbours) : this.near_neighbours[i] = d_sq})

\* C24: the query of the hash unit for shell j returns the sum of
\* exp(-a * d2) / p(j, log_nmu) over exactly its candidates with
\* r_{j-1}^2 < d2 <= r_j^2 (r_0 = 0, r_j^2 = j * ln 2 / a); so a point is
\* counted by the unit of at most one shell 1 .. J, and a point at distance 0
\* or beyond r_J by none
C24_CountsExactlyTheAnnulus ==
  (this # NoKDE /\ this.phase = "unit") =>
    /\ ret.op = "unit_query" =>
         ret.val = SumTo([d \in Distances |->
                            IF (this.j - 1) * DistDen < d /\ d <= this.j * DistDen
                            THEN CandidatesAt(d) * KernelMilli[d + 1] * (2 ^ (this.j + this.log_nmu))
                            ELSE 0],
                         Cardinality(Distances))
    /\ \A i \in 1 .. Len(this.near_neighbours) :
         LET d == this.near_neighbours[i]
             counting == {s \in 1 .. this.J : HashUnit_query(s, this.log_nmu, <<d>>) # 0}
         IN /\ Cardinality(counting) <= 1
            /\ (d = 0 \/ d > this.J * DistDen) => counting = {}
            /\ (d > 0 /\ d <= this.J * DistDen) => Cardinality(counting) = 1

\* a unit of an inner shell was queried with a candidate in its annulus, one
\* at the query point and none elsewhere
C24_Witness ==
  /\ this # NoKDE /\ this.phase = "unit" /\ ret.op = "unit_query"
  /\ this.j = 2 /\ this.J = 3
  /\ CandidatesAt(0) = 1 /\ CandidatesAt(2 * DistDen) = 1
  /\ ret.val > 0

\* C25: when the constructor converts its input to the adjacency matrix,
\* exactly the entries of absolute value below EPSILON are removed: every
\* entry of the converted matrix of absolute value at least EPSILON, of either
\* sign, is in the adjacency matrix with its value
C25_PrunedIffAbsBelowEpsilon ==
  (ret.op = "Graph" /\ ret.kind = "graph") =>
    LET converted == IF found_negative_value(ret.arg.matrix)
                     THEN LaplacianToAdjacency(ret.arg.matrix) ELSE ret.arg.matrix
    IN \A p \in Pairs(converted.n) :
         this.adjacency_matrix_.val[p] =
           IF converted.val[p] >= EPSILON \/ (0 - converted.val[p]) >= EPSILON
           THEN converted.val[p] ELSE 0

\* the threads that have passed the init-flag check of initialise_laplacian_
\* and have not yet set the flag
PastLapCheck ==
  {t \in LazyThreads : ret.val.pc[t] \in {"deg_check", "deg_reset", "deg_insert", "lap_build"}}

\* C26: lazy initialisation of a derived matrix is not thread-safe, and is
\* safe under the caller's precautions: when the first access is serialised
\* or the matrix was pre-warmed before the Graph was shared, two threads are
\* never both past the init-flag check, and no cached matrix is built twice
\* or written by two threads at once
C26_SafeWhenSerialisedOrPrewarmed ==
  (ret.op = "share" /\ ret.arg # "unsynchronised") =>
    /\ ret.kind = "running"
    /\ Cardinality(PastLapCheck) <= 1
    /\ ~ret.val.raced
    /\ this.builds["laplacian"] <= 1
    /\ this.builds["degree"] <= 1
    /\ \A t \in LazyThreads :
         ret.val.pc[t] = "returned" =>
           /\ this.lap_init_
           /\ this.laplacian_matrix_ = initialise_laplacian_(NewGraph(this.adjacency_matrix_)).laplacian_matrix_

\* without synchronisation: both threads passed the init-flag check of a
\* fresh Graph, and both built and assigned the Laplacian
C26_Witness ==
  /\ ret.op = "share" /\ ret.arg = "unsynchronised" /\ ret.kind = "running"
  /\ \A t \in LazyThreads : ret.val.pc[t] = "returned"
  /\ this.builds["laplacian"] = 2
  /\ this.builds["degree"] = 2

\* without synchronisation both threads can be past the init-flag check at once
C26_WitnessBothPastCheck ==
  /\ ret.op = "share" /\ ret.arg = "unsynchronised" /\ ret.kind = "running"
  /\ PastLapCheck = LazyThreads

\* the sum of degree_unweighted(v) over the vertices of g
SumDegreeUnweighted(g) ==
  SumTo([v \in Verts(g.number_of_vertices_) |-> DegreeUnweightedOf(g, v)], g.number_of_vertices_)

\* the vertices with a self-loop, and the edges between two different vertices
LoopVertices(g) == {v \in Verts(g.number_of_vertices_) : g.adjacency_matrix_.val[<<v, v>>] # 0}

ProperEdges(g) ==
  {p \in Pairs(g.number_of_vertices_) : p[1] < p[2] /\ g.adjacency_matrix_.val[p] # 0}

\* C28: the sum over all vertices of degree_unweighted(v) is twice
\* number_of_edges(); a self-loop adds 2 to the unweighted degree of its
\* vertex and 1 to the number of edges
C28_HandshakeUnweighted ==
  this # NoGraph =>
    /\ SumDegreeUnweighted(this) = 2 * number_of_edges(this)
    /\ number_of_edges(this) = Cardinality(ProperEdges(this)) + Cardinality(LoopVertices(this))
    /\ \A v \in Verts(this.number_of_vertices_) :
         DegreeUnweightedOf(this, v) =
           Cardinality({u \in Verts(this.number_of_vertices_) \ {v} :
                          this.adjacency_matrix_.val[<<v, u>>] # 0})
           + (IF v \in LoopVertices(this) THEN 2 ELSE 0)
    /\ (ret.op = "number_of_edges" /\ ret.kind = "value") => 2 * ret.val = SumDegreeUnweighted(this)
    /\ (ret.op = "degree_unweighted" /\ ret.kind = "value") => ret.val = DegreeUnweightedOf(this, ret.arg)

\* degree_unweighted answered for a vertex with a self-loop and a neighbour
C28_Witness ==
  /\ this # NoGraph
  /\ ret.op = "degree_unweighted" /\ ret.kind = "value"
  /\ ret.arg \in LoopVertices(this)
  /\ ProperEdges(this) # {}
  /\ ret.val >= 3

\* the operations of a constructed Graph, by the name the call is recorded under
GraphOperations ==
  {"laplacian", "normalised_laplacian", "signless_laplacian", "normalised_signless_laplacian",
   "degree", "inverse_degree", "lazy_random_walk"}
  \cup {"total_volume", "average_degree", "number_of_edges", "degree", "degree_unweighted",
         "neighbors", "neighbors_unweighted", "vertex_exists", "subgraph", "disjoint_union",
         "equality"}

\* C29: no operation of a constructed Graph changes its adjacency matrix, its
\* number of vertices or its self-loop flag, and disjoint_union and equality
\* leave the adjacency matrix of the other operand as it was
C29_OperationsLeaveGraphUnchanged ==
  [][(this # NoGraph /\ this' # NoGraph /\ ret'.op \in GraphOperations) =>
       /\ this'.adjacency_matrix_ = this.adjacency_matrix_
       /\ this'.number_of_vertices_ = this.number_of_vertices_
       /\ this'.has_self_loops_ = this.has_self_loops_
       /\ ret'.op \in {"disjoint_union", "equality"} =>
            ret'.arg \in {other.adjacency_matrix_ : other \in Others}]_vars

\* disjoint_union with a subgraph returned a Graph, for a Graph with a
\* self-loop whose Laplacian and degree matrix had been built by earlier calls
C29_Witness ==
  /\ this # NoGraph
  /\ this.lap_init_ /\ this.deg_init_ /\ this.has_self_loops_
  /\ ret.op = "disjoint_union" /\ ret.kind = "graph"
  /\ ret.arg # this.adjacency_matrix_

\* the chunk results of a query on the thread-pool path, joined in chunk
\* order, are the estimates of the rows 0 .. m - 1 in row order
C30_ChunksCoverRowsInOrder ==
  (ret.op = "exact_query" /\ this # NoKDE
   /\ Len(ret.arg.query_points) >= ret.arg.num_threads) =>
    ChunksFrom(this.n, ret.arg.query_points, ret.arg.num_threads, 0)
      = [i \in 1 .. Len(ret.arg.query_points) |->
           gaussian_kde_exact(this.n, ret.arg.query_points[i])]

\* C30: on the thread-pool path of ExactGaussianKDE::query (T chunks, m >= T
\* rows) every row is computed by exactly one chunk and the chunk results are
\* joined in chunk order, so that position i of the result holds the estimate
\* of query row i, for every row i of 0 .. m - 1
C30_PoolResultHoldsRowEstimates ==
  (ret.op = "exact_query" /\ Len(ret.arg.query_points) >= ret.arg.num_threads) =>
    /\ ret.kind = "results"
    /\ this # NoKDE
    /\ \A i \in 1 .. Len(ret.arg.query_points) :
         /\ i <= Len(ret.val)
         /\ ret.val[i] = gaussian_kde_exact(this.n, ret.arg.query_points[i])

=============================================================================
